---- MODULE Spec2Model ----
(***************************************************************************)
(* A model of the hvac-controller control layer: the device timing guard,  *)
(* the GPIO pin driver, the persisted store (system singleton, zones,      *)
(* devices), the zone, recirculation and failsafe controllers and the      *)
(* heat-pump role swap.                                                    *)
(*                                                                         *)
(* Time is counted in minutes.  Temperatures are counted in tenths of a    *)
(* degree Fahrenheit, so that ZoneSpread (0.5 F) is the integer 5.         *)
(***************************************************************************)
EXTENDS Integers, Sequences, FiniteSets, TLC

NULL == "null"

\* internal/model: SystemMode
ModeOff == "off"
ModeHeating == "heating"
ModeCooling == "cooling"
ModeCirculate == "circulate"
Modes == {ModeOff, ModeHeating, ModeCooling, ModeCirculate}

(***************************************************************************)
(* Bounds of the model.                                                    *)
(***************************************************************************)
\* minutes the clock may advance after the start
MaxTicks == 3
\* user commands (system mode, zone mode) and new sensor readings
MaxEvents == 2
\* the guard specification: the clock and the stamps range over 0..GuardMaxTime
GuardMaxTime == 7
\* the heat-pump specification: role swaps and online changes attempted
MaxHpOps == 4
MaxReadings == 10
MaxSwings == 3
MaxRecoveryReadings == 19
MaxRecoverySwings == 1
\* calls made on the heat-source functions in one run
MaxCalls == 2

(***************************************************************************)
(* Configuration (the sample configuration shipped with the program).      *)
(***************************************************************************)
RelayBoardActiveHigh == FALSE
SystemOverrideMinTemp == 550
SystemOverrideMaxTemp == 900
Spread == 50
AirHandlerMinOn == 3
AirHandlerMinOff == 1
RadiantLoopMinOn == 5
RadiantLoopMinOff == 3
ZoneSetpoint == [main_floor |-> 700, basement |-> 700, garage |-> 550]

\* zonecontroller constants
ZoneSpread == 5
HeatingSecondaryThreshold == 30

\* recirculationcontroller constants, in minutes
RecirculationInterval == 720
RecirculationDuration == 15

\* failsafecontroller: ignoredZones
ignoredZones == <<"garage">>

\* the zones table, in row order
ZoneList == <<"main_floor", "basement", "garage">>
ZoneIds == {ZoneList[i] : i \in 1..Len(ZoneList)}

GPIOPin(n) == [Number |-> n, ActiveHigh |-> RelayBoardActiveHigh]

\* the air_handler rows of the devices table (static columns), by zone_id
AirHandlers ==
  [main_floor |-> [Name |-> "main_floor_air_handler", Pin |-> GPIOPin(5),
                   CircPumpPin |-> GPIOPin(6),
                   MinOn |-> AirHandlerMinOn, MinOff |-> AirHandlerMinOff],
   basement   |-> [Name |-> "basement_air_handler", Pin |-> GPIOPin(12),
                   CircPumpPin |-> GPIOPin(13),
                   MinOn |-> AirHandlerMinOn, MinOff |-> AirHandlerMinOff]]

\* the radiant_floor rows of the devices table (static columns), by zone_id
RadiantLoops ==
  [basement |-> [Name |-> "basement_radiant_loop", Pin |-> GPIOPin(16),
                 MinOn |-> RadiantLoopMinOn, MinOff |-> RadiantLoopMinOff],
   garage   |-> [Name |-> "garage_radiant_loop", Pin |-> GPIOPin(17),
                 MinOn |-> RadiantLoopMinOn, MinOff |-> RadiantLoopMinOff]]

DeviceNames == {AirHandlers[z].Name : z \in DOMAIN AirHandlers}
               \cup {RadiantLoops[z].Name : z \in DOMAIN RadiantLoops}
PinNumbers == {AirHandlers[z].Pin.Number : z \in DOMAIN AirHandlers}
              \cup {AirHandlers[z].CircPumpPin.Number : z \in DOMAIN AirHandlers}
              \cup {RadiantLoops[z].Pin.Number : z \in DOMAIN RadiantLoops}

HeatPumpIds == {1, 2}

VARIABLES
  now,                    \* the wall clock, in minutes
  level,                  \* pinctrl: the logic level of every pin
  lastChanged,            \* devices.last_changed, by device name
  systemMode,             \* system.system_mode
  overrideActive,         \* system.override_active
  priorSystemMode,        \* system.prior_system_mode (NULL when not set)
  recirculationActive,    \* system.recirculation_active
  recirculationStartedAt, \* system.recirculation_started_at (NULL when not set)
  stuckCleared,           \* history: the last recirculation cycle cleared a flag set for too long
  zones,                  \* the ids of the zones table, in the order db.GetAllZones returns them
  zoneMode,               \* zones.mode, by zone id
  temperature,            \* the temperature service's reading per zone (NULL: none valid)
  zonePc,                 \* per zone controller: "idle", or "act" between evaluation and actuation
  zoneLocal,              \* per zone controller: the locals of the cycle in flight
  heatPumps,              \* devices rows of the heat pumps: is_primary, last_rotated, online
  events,                 \* commands and readings received so far
  ops,                    \* history: the device calls made by the last step
  fs,                     \* history: the failsafe cycle run by the last step
  episodeMode,            \* history: the system mode in effect just before the override was set
  forcedOnAt,             \* history: when recirculation forced each blower on
  guardDevice,            \* guard specification: the device handed to CanToggle
  guardResult,            \* guard specification: what CanToggle returned
  sensorZone,             \* temperature service: sensorZones[sensor] of the sensor followed
  history,                \* temperature service: history[sensor] (NoHistory when nil)
  readings,               \* temperature service: readings[sensor] (NoPublished when absent)
  pollCycle,              \* temperature service: the time, in poll intervals
  mainPower,              \* the main power relay is energized
  pr,                     \* history: the last processReading call and what it did
  goodRun,                \* history: readings in a row within the delta while disabled
  sourceActive,           \* pinctrl: the relay of every heat source is active
  sourceLastChanged,      \* LastChanged of every heat source
  boilers,                \* devices rows of the boilers: online
  tc,                     \* the calls made on the heat-source functions and their results
  bc                      \* history: the last heat-source cycle and what it did

vars == <<now, zones, level, lastChanged, systemMode, overrideActive, priorSystemMode,
          recirculationActive, recirculationStartedAt, stuckCleared, zoneMode, temperature,
          zonePc, zoneLocal, heatPumps, events, ops, fs, episodeMode, forcedOnAt,
          guardDevice, guardResult, sensorZone, history, readings, pollCycle,
          mainPower, pr, goodRun, sourceActive, sourceLastChanged, boilers, tc, bc>>

storeVars == <<systemMode, overrideActive, priorSystemMode,
               recirculationActive, recirculationStartedAt, zoneMode>>
guardVars == <<guardDevice, guardResult>>

(***************************************************************************)
(* GPIO (internal/gpio).                                                   *)
(***************************************************************************)
\* gpio.CurrentlyActive on a given map of levels
CurrentlyActiveIn(lv, pin) == pin.ActiveHigh = lv[pin.Number]

\* gpio.CurrentlyActive
CurrentlyActive(pin) == CurrentlyActiveIn(level, pin)

\* gpio.Activate: drive high for an active-high pin, low otherwise
Activate(lv, pin) ==
  IF pin.ActiveHigh THEN [lv EXCEPT ![pin.Number] = TRUE]
  ELSE [lv EXCEPT ![pin.Number] = FALSE]

\* gpio.Deactivate: drive low for an active-high pin, high otherwise
Deactivate(lv, pin) ==
  IF pin.ActiveHigh THEN [lv EXCEPT ![pin.Number] = FALSE]
  ELSE [lv EXCEPT ![pin.Number] = TRUE]

(***************************************************************************)
(* The device timing guard (internal/device).                              *)
(***************************************************************************)
\* a guard that takes the raw logic level for the activation state
CanToggleRawLevel(lv, d, t) ==
  IF lv[d.Pin.Number] THEN t - d.LastChanged >= d.MinOn
  ELSE t - d.LastChanged >= d.MinOff

\* device.CanToggle on a given map of levels
CanToggleIn(lv, d, t) ==
  LET active == CurrentlyActiveIn(lv, d.Pin) IN
  IF active THEN t - d.LastChanged >= d.MinOn
  ELSE t - d.LastChanged >= d.MinOff

\* device.CanToggle
CanToggle(d, t) == CanToggleIn(level, d, t)

(***************************************************************************)
(* Device calls (internal/device).  A call acts on the hardware state      *)
(* hw = [level, lastChanged, ops]: the pin levels, the stored stamps and   *)
(* the history of calls of the step.  c = [ctl, guard] names the calling   *)
(* controller and what CanToggle returned for the device in its cycle.     *)
(***************************************************************************)
NoTime == 0 - 1

\* the history record of one device call
OpRecord(hw, c, d, call, lv, t) ==
  [ctl |-> c.ctl, dev |-> d.Name, call |-> call, guard |-> c.guard, at |-> t,
   changed |-> lv # hw.level,
   blowerOff |-> "CircPumpPin" \in DOMAIN d
                 /\ CurrentlyActiveIn(hw.level, d.Pin)
                 /\ ~CurrentlyActiveIn(lv, d.Pin),
   pumpBefore |-> "CircPumpPin" \in DOMAIN d
                  /\ CurrentlyActiveIn(hw.level, d.CircPumpPin),
   forcedAt |-> IF "CircPumpPin" \in DOMAIN d THEN forcedOnAt[d.Zone] ELSE NoTime,
   pinsOn |-> {n \in DOMAIN lv : lv[n] # hw.level[n] /\ lv[n] = RelayBoardActiveHigh},
   pinsOff |-> {n \in DOMAIN lv : lv[n] # hw.level[n] /\ lv[n] # RelayBoardActiveHigh},
   minOn |-> d.MinOn, minOff |-> d.MinOff]

\* the tail of every call: the new levels, LastChanged = now, db.UpdateDeviceLastChanged
\* (the state before, the device and the new levels are each computed once)
Stamp(hw, c, d, call, lv, t) ==
  CHOOSE after \in {[level |-> l,
                      lastChanged |-> [h.lastChanged EXCEPT ![dev.Name] = t],
                      ops |-> Append(h.ops, OpRecord(h, c, dev, call, l, t))] :
                       h \in {hw}, dev \in {d}, l \in {lv}} : TRUE

ActivateAirHandler(hw, c, ah, t) ==
  Stamp(hw, c, ah, "ActivateAirHandler",
        Activate(Activate(hw.level, ah.CircPumpPin), ah.Pin), t)

ActivateBlower(hw, c, ah, t) ==
  Stamp(hw, c, ah, "ActivateBlower", Activate(hw.level, ah.Pin), t)

DeactivateBlower(hw, c, ah, t) ==
  Stamp(hw, c, ah, "DeactivateBlower", Deactivate(hw.level, ah.Pin), t)

DeactivateAirHandler(hw, c, ah, t) ==
  Stamp(hw, c, ah, "DeactivateAirHandler",
        Deactivate(Deactivate(hw.level, ah.Pin), ah.CircPumpPin), t)

ActivateRadiantLoop(hw, c, rl, t) ==
  Stamp(hw, c, rl, "ActivateRadiantLoop", Activate(hw.level, rl.Pin), t)

DeactivateRadiantLoop(hw, c, rl, t) ==
  Stamp(hw, c, rl, "DeactivateRadiantLoop", Deactivate(hw.level, rl.Pin), t)

(***************************************************************************)
(* Store queries (db).                                                     *)
(***************************************************************************)
HasAirHandler(z) == z \in DOMAIN AirHandlers
HasRadiantLoop(z) == z \in DOMAIN RadiantLoops

\* db.GetAirHandlerByID on given stamps (the caller checks HasAirHandler for nil)
GetAirHandlerByID(lc, z) ==
  [Name |-> AirHandlers[z].Name, Pin |-> AirHandlers[z].Pin,
   CircPumpPin |-> AirHandlers[z].CircPumpPin,
   MinOn |-> AirHandlers[z].MinOn, MinOff |-> AirHandlers[z].MinOff,
   LastChanged |-> lc[AirHandlers[z].Name], Zone |-> z]

\* db.GetRadiantLoopByID on given stamps (the caller checks HasRadiantLoop for nil)
GetRadiantLoopByID(lc, z) ==
  [Name |-> RadiantLoops[z].Name, Pin |-> RadiantLoops[z].Pin,
   MinOn |-> RadiantLoops[z].MinOn, MinOff |-> RadiantLoops[z].MinOff,
   LastChanged |-> lc[RadiantLoops[z].Name], Zone |-> z]

\* the hardware state at the start of a step
Hw0 == [level |-> level, lastChanged |-> lastChanged, ops |-> <<>>]

\* the history of forced blowers after a step that leaves the levels lv and
\* made the calls o: a blower is forced from the minute the recirculation
\* controller switches it on until it is off or another controller has
\* switched the air handler on for its own demand
ForcedAfter(lv, o) ==
  [z \in DOMAIN AirHandlers |->
     IF ~CurrentlyActiveIn(lv, AirHandlers[z].Pin) THEN NoTime
     ELSE IF \E i \in 1..Len(o) : /\ o[i].ctl = "recirculation"
                                  /\ o[i].dev = AirHandlers[z].Name
                                  /\ o[i].call = "ActivateBlower"
          THEN now
     ELSE IF \E i \in 1..Len(o) : /\ o[i].ctl # "recirculation"
                                  /\ o[i].dev = AirHandlers[z].Name
                                  /\ o[i].call \in {"ActivateBlower", "ActivateAirHandler"}
          THEN NoTime
          ELSE forcedOnAt[z]]

(***************************************************************************)
(* The zone controller (internal/controllers/zonecontroller).              *)
(***************************************************************************)
isOppositeMode(a, b) ==
  \/ a = ModeHeating /\ b = ModeCooling
  \/ a = ModeCooling /\ b = ModeHeating

shouldBeOn(zt, threshold, mode) ==
  IF mode = ModeHeating THEN zt < threshold ELSE zt > threshold

getThreshold(setpoint, mode, active, secondary) ==
  LET base == setpoint
      heatOn == base - ZoneSpread
      heatOff == base + ZoneSpread
      coolOn == base + ZoneSpread
      coolOff == base - ZoneSpread
      backupHeatOn == base - ZoneSpread - HeatingSecondaryThreshold
      backupHeatOff == base + ZoneSpread - HeatingSecondaryThreshold
  IN IF mode = ModeHeating
     THEN IF active /\ secondary THEN backupHeatOff
          ELSE IF active THEN heatOff
          ELSE IF secondary THEN backupHeatOn
          ELSE heatOn
     ELSE IF active THEN coolOff ELSE coolOn

NoSwitch == [sw |-> {}, err |-> FALSE]

\* evaluateZoneActions: sw is the set of switchMap keys set to true
evaluateZoneActions(blowerActive, pumpActive, loopActive, hasHandler, hasLoop, canToggleHandler, canToggleLoop, temp, mode, sysMode, threshold, secondaryThreshold) ==
  LET shouldPrimary == shouldBeOn(temp, threshold, mode)
      shouldSecondary == shouldBeOn(temp, secondaryThreshold, mode)
      skipHandler == ~(hasHandler /\ canToggleHandler)
      skipLoop == ~(hasLoop /\ canToggleLoop)
      loopSw == (IF shouldPrimary /\ ~loopActive THEN {"activate_loop"} ELSE {})
                \cup (IF ~shouldPrimary /\ loopActive THEN {"deactivate_loop"} ELSE {})
      primarySw == (IF shouldPrimary /\ ~pumpActive
                    THEN {"activate_blower", "activate_pump"} ELSE {})
                   \cup (IF ~shouldPrimary /\ pumpActive
                         THEN {"deactivate_blower", "deactivate_pump"} ELSE {})
      secondarySw == (IF shouldSecondary /\ ~pumpActive
                      THEN {"activate_blower", "activate_pump"} ELSE {})
                     \cup (IF ~shouldSecondary /\ pumpActive
                           THEN {"deactivate_blower", "deactivate_pump"} ELSE {})
  IN
  IF mode = ModeOff THEN
    [sw |-> (IF blowerActive /\ canToggleHandler THEN {"deactivate_blower"} ELSE {})
            \cup (IF pumpActive /\ canToggleHandler THEN {"deactivate_pump"} ELSE {})
            \cup (IF loopActive /\ canToggleLoop THEN {"deactivate_loop"} ELSE {}),
     err |-> FALSE]
  ELSE IF isOppositeMode(mode, sysMode) THEN [sw |-> {}, err |-> TRUE]
  ELSE IF ~hasHandler /\ ~hasLoop THEN [sw |-> {}, err |-> TRUE]
  ELSE IF skipHandler /\ skipLoop THEN NoSwitch
  ELSE IF mode = ModeCirculate THEN
    IF ~hasHandler THEN NoSwitch
    ELSE IF blowerActive
         THEN [sw |-> IF pumpActive THEN {"deactivate_pump"} ELSE {}, err |-> FALSE]
         ELSE [sw |-> {"activate_blower"}, err |-> FALSE]
  ELSE IF ~hasHandler /\ hasLoop THEN
    [sw |-> IF mode = ModeHeating THEN loopSw ELSE {}, err |-> FALSE]
  ELSE IF ~hasLoop /\ hasHandler THEN [sw |-> primarySw, err |-> FALSE]
  ELSE IF mode = ModeCooling THEN [sw |-> primarySw, err |-> FALSE]
  ELSE [sw |-> loopSw \cup secondarySw, err |-> FALSE]

NoLocal == [sw |-> {}, err |-> FALSE, canToggleHandler |-> FALSE, canToggleLoop |-> FALSE]
NoReading == 0 - 10000
NoFs == [ran |-> FALSE, overrideBefore |-> FALSE, modeBefore |-> ModeOff, dbOk |-> FALSE,
         SetOverride |-> FALSE, ClearOverride |-> FALSE, OverrideMode |-> NULL,
         TriggerZone |-> NULL, ActivateZones |-> <<>>, DeactivateZones |-> <<>>]

\* RunZoneController, lines 40-141: the override check, the reads, the guard
\* checks and the evaluation of one cycle
ZoneCycleLocals(z) ==
  LET hasHandler == HasAirHandler(z)
      hasLoop == HasRadiantLoop(z)
      canToggleHandler ==
        IF hasHandler THEN CanToggle(GetAirHandlerByID(lastChanged, z), now) ELSE FALSE
      canToggleLoop ==
        IF hasLoop THEN CanToggle(GetRadiantLoopByID(lastChanged, z), now) ELSE FALSE
      blowerActive == IF hasHandler THEN CurrentlyActive(AirHandlers[z].Pin) ELSE FALSE
      pumpActive == IF hasHandler THEN CurrentlyActive(AirHandlers[z].CircPumpPin) ELSE FALSE
      loopActive == IF hasLoop THEN CurrentlyActive(RadiantLoops[z].Pin) ELSE FALSE
      threshold == getThreshold(ZoneSetpoint[z], zoneMode[z], pumpActive, FALSE)
      secondaryThreshold == getThreshold(ZoneSetpoint[z], zoneMode[z], pumpActive, TRUE)
      r == evaluateZoneActions(blowerActive, pumpActive, loopActive, hasHandler, hasLoop,
                               canToggleHandler, canToggleLoop, temperature[z],
                               zoneMode[z], systemMode, threshold, secondaryThreshold)
  IN [sw |-> r.sw, err |-> r.err,
      canToggleHandler |-> canToggleHandler, canToggleLoop |-> canToggleLoop]

\* RunZoneController, lines 159-177: the evaluation failed, turn everything off
ZoneForceOff(hw, z, l, recircActive, t) ==
  LET ch == [ctl |-> "zone", guard |-> l.canToggleHandler]
      cl == [ctl |-> "zone", guard |-> l.canToggleLoop]
      e1 == IF HasAirHandler(z)
            THEN DeactivateAirHandler(hw, ch, GetAirHandlerByID(hw.lastChanged, z), t)
            ELSE hw
      e2 == IF HasAirHandler(z) /\ ~recircActive
            THEN DeactivateBlower(e1, ch, GetAirHandlerByID(e1.lastChanged, z), t)
            ELSE e1
  IN IF HasRadiantLoop(z)
     THEN DeactivateRadiantLoop(e2, cl, GetRadiantLoopByID(e2.lastChanged, z), t)
     ELSE e2

\* RunZoneController, lines 180-212: apply the switchMap
ZoneApplySwitchMap(hw, z, l, recircActive, t) ==
  LET ch == [ctl |-> "zone", guard |-> l.canToggleHandler]
      cl == [ctl |-> "zone", guard |-> l.canToggleLoop]
      hh == HasAirHandler(z)
      h1 == IF hh /\ "activate_blower" \in l.sw
            THEN ActivateBlower(hw, ch, GetAirHandlerByID(hw.lastChanged, z), t) ELSE hw
      h2 == IF hh /\ "deactivate_blower" \in l.sw /\ ~recircActive
            THEN DeactivateBlower(h1, ch, GetAirHandlerByID(h1.lastChanged, z), t) ELSE h1
      h3 == IF hh /\ "activate_pump" \in l.sw
            THEN ActivateAirHandler(h2, ch, GetAirHandlerByID(h2.lastChanged, z), t) ELSE h2
      h4 == IF hh /\ "deactivate_pump" \in l.sw
            THEN DeactivateAirHandler(h3, ch, GetAirHandlerByID(h3.lastChanged, z), t) ELSE h3
      h5 == IF HasRadiantLoop(z) /\ "activate_loop" \in l.sw
            THEN ActivateRadiantLoop(h4, cl, GetRadiantLoopByID(h4.lastChanged, z), t) ELSE h4
  IN IF HasRadiantLoop(z) /\ "deactivate_loop" \in l.sw
     THEN DeactivateRadiantLoop(h5, cl, GetRadiantLoopByID(h5.lastChanged, z), t) ELSE h5

\* One zone-controller cycle up to its evaluation.  A cycle that finds the
\* override set, has no valid reading or decides on no action ends here and
\* changes nothing.
ZoneEvaluate(z) ==
  /\ zonePc[z] = "idle"
  /\ ~overrideActive
  /\ temperature[z] # NoReading
  /\ LET l == ZoneCycleLocals(z) IN
       /\ l.err \/ l.sw # {}
       /\ zoneLocal' = [zoneLocal EXCEPT ![z] = l]
  /\ zonePc' = [zonePc EXCEPT ![z] = "act"]
  /\ ops' = <<>>
  /\ fs' = NoFs
  /\ UNCHANGED <<zones, now, level, lastChanged, systemMode, overrideActive, priorSystemMode,
                 recirculationActive, recirculationStartedAt, stuckCleared, zoneMode,
                 temperature, heatPumps, events, episodeMode, forcedOnAt, guardDevice,
                 guardResult, sensorZone, history, readings, pollCycle, mainPower, pr, goodRun,
                 sourceActive, sourceLastChanged, boilers, tc, bc>>

\* The rest of the cycle: the device calls the evaluation decided on.
ZoneActuate(z) ==
  /\ zonePc[z] = "act"
  /\ LET l == zoneLocal[z]
         hw == IF l.err THEN ZoneForceOff(Hw0, z, l, recirculationActive, now)
               ELSE ZoneApplySwitchMap(Hw0, z, l, recirculationActive, now)
     IN /\ level' = hw.level
        /\ lastChanged' = hw.lastChanged
        /\ ops' = hw.ops
        /\ forcedOnAt' = ForcedAfter(hw.level, hw.ops)
  /\ zonePc' = [zonePc EXCEPT ![z] = "idle"]
  /\ zoneLocal' = [zoneLocal EXCEPT ![z] = NoLocal]
  /\ fs' = NoFs
  /\ UNCHANGED <<zones, now, systemMode, overrideActive, priorSystemMode, recirculationActive,
                 recirculationStartedAt, stuckCleared, zoneMode, temperature, heatPumps, events,
                 episodeMode, guardDevice, guardResult, sensorZone, history, readings, pollCycle,
                 mainPower, pr, goodRun, sourceActive, sourceLastChanged, boilers, tc, bc>>

(***************************************************************************)
(* The recirculation controller                                            *)
(* (internal/controllers/recirculationcontroller).  A cycle acts on        *)
(* rs = [hw, active, startedAt]: the hardware state and the store's        *)
(* recirculation flag.                                                     *)
(***************************************************************************)
\* db.SetRecirculationActive: the start time is stored only with an active flag
SetRecirculationActive(rs, active, startedAt) ==
  [rs EXCEPT !.active = active,
             !.startedAt = IF active THEN startedAt ELSE NoTime]

evaluateRecirculation(rs, z, sysMode, t) ==
  LET handler == GetAirHandlerByID(rs.hw.lastChanged, z)
      blowerActive == CurrentlyActiveIn(rs.hw.level, handler.Pin)
      pumpActive == CurrentlyActiveIn(rs.hw.level, handler.CircPumpPin)
      timeSinceLastToggle == t - handler.LastChanged
      can == CanToggleIn(rs.hw.level, handler, t)
      c == [ctl |-> "recirculation", guard |-> can]
  IN IF ~blowerActive /\ timeSinceLastToggle > RecirculationInterval
     THEN IF can
          THEN SetRecirculationActive(
                 [rs EXCEPT !.hw = ActivateBlower(rs.hw, c, handler, t)], TRUE, t)
          ELSE rs
     ELSE IF blowerActive
     THEN IF pumpActive THEN rs
          ELSE IF sysMode = ModeCirculate THEN rs
          ELSE IF ~pumpActive /\ sysMode # ModeCirculate
                  /\ timeSinceLastToggle > RecirculationDuration /\ can
          THEN SetRecirculationActive(
                 [rs EXCEPT !.hw = DeactivateBlower(rs.hw, c, handler, t)], FALSE, NoTime)
          ELSE rs
     ELSE rs

RECURSIVE RecirculationZones(_, _, _, _, _)
\* RunRecirculationController, lines 60-72: every zone with an air handler, in
\* order (the state after a zone is computed once, as the one member of a set)
RecirculationZones(rs, zs, i, sysMode, t) ==
  IF i > Len(zs) THEN rs
  ELSE LET after == {IF HasAirHandler(zs[i])
                     THEN evaluateRecirculation(r, zs[i], sysMode, t) ELSE r : r \in {rs}}
       IN RecirculationZones(CHOOSE r \in after : TRUE, zs, i + 1, sysMode, t)

\* a watchdog that waits for three times the duration
RecirculationWatchdogThrice(rs, t) ==
  IF rs.active /\ t - rs.startedAt > RecirculationDuration * 3
  THEN SetRecirculationActive(rs, FALSE, NoTime)
  ELSE rs

\* RunRecirculationController, lines 35-46: clear a flag set for too long
RecirculationWatchdog(rs, t) ==
  IF rs.active /\ t - rs.startedAt > RecirculationDuration * 2
  THEN SetRecirculationActive(rs, FALSE, NoTime)
  ELSE rs

\* One cycle of the recirculation controller (a cycle that changes nothing is no step).
RecirculationCycle ==
  LET rs0 == [hw |-> Hw0, active |-> recirculationActive,
              startedAt |-> recirculationStartedAt]
  IN \E rs \in {RecirculationZones(RecirculationWatchdog(rs0, now), zones, 1, systemMode, now)} :
     /\ rs # rs0
     /\ level' = rs.hw.level
     /\ lastChanged' = rs.hw.lastChanged
     /\ ops' = rs.hw.ops
     /\ recirculationActive' = rs.active
     /\ recirculationStartedAt' = rs.startedAt
     /\ stuckCleared' = (RecirculationWatchdog(rs0, now) # rs0)
     /\ forcedOnAt' = ForcedAfter(rs.hw.level, rs.hw.ops)
     /\ fs' = NoFs
     /\ UNCHANGED <<zones, now, systemMode, overrideActive, priorSystemMode, zoneMode,
                    temperature, zonePc, zoneLocal, heatPumps, events, episodeMode, guardDevice,
                    guardResult, sensorZone, history, readings, pollCycle, mainPower, pr,
                    goodRun, sourceActive, sourceLastChanged, boilers, tc, bc>>

(***************************************************************************)
(* The failsafe controller (internal/controllers/failsafecontroller) and   *)
(* the override transactions (db).                                         *)
(***************************************************************************)
\* a failsafe with no exempt zone
NoZoneIgnored(zoneID) == FALSE

isZoneIgnored(zoneID) == \E i \in 1..Len(ignoredZones) : ignoredZones[i] = zoneID

\* gatherZoneStates: the zones with a valid reading, in zone-list order
gatherZoneStates(zs, temps) ==
  LET valid == SelectSeq(zs, LAMBDA z : temps[z] # NoReading)
  IN [i \in 1..Len(valid) |-> [Zone |-> valid[i], Temperature |-> temps[valid[i]]]]

RECURSIVE ScanUnsafeInclusive(_, _, _, _)
\* a scan that also takes a reading equal to a bound for a violation
ScanUnsafeInclusive(zoneStates, i, minTemp, maxTemp) ==
  IF i > Len(zoneStates) THEN 0
  ELSE IF isZoneIgnored(zoneStates[i].Zone)
       THEN ScanUnsafeInclusive(zoneStates, i + 1, minTemp, maxTemp)
  ELSE IF zoneStates[i].Temperature <= minTemp THEN i
  ELSE IF zoneStates[i].Temperature >= maxTemp THEN i
  ELSE ScanUnsafeInclusive(zoneStates, i + 1, minTemp, maxTemp)

RECURSIVE ScanUnsafe(_, _, _, _)
\* evaluateFailsafeActions, lines 128-175: the index of the first zone outside
\* [minTemp, maxTemp], 0 when there is none
ScanUnsafe(zoneStates, i, minTemp, maxTemp) ==
  IF i > Len(zoneStates) THEN 0
  ELSE IF isZoneIgnored(zoneStates[i].Zone)
       THEN ScanUnsafe(zoneStates, i + 1, minTemp, maxTemp)
  ELSE IF zoneStates[i].Temperature < minTemp THEN i
  ELSE IF zoneStates[i].Temperature > maxTemp THEN i
  ELSE ScanUnsafe(zoneStates, i + 1, minTemp, maxTemp)

RECURSIVE ScanAllSafe(_, _, _, _)
\* evaluateFailsafeActions, lines 188-202: allZonesSafe
ScanAllSafe(zoneStates, i, safeMin, safeMax) ==
  IF i > Len(zoneStates) THEN TRUE
  ELSE IF isZoneIgnored(zoneStates[i].Zone)
       THEN ScanAllSafe(zoneStates, i + 1, safeMin, safeMax)
  ELSE IF zoneStates[i].Temperature < safeMin \/ zoneStates[i].Temperature > safeMax
       THEN FALSE
  ELSE ScanAllSafe(zoneStates, i + 1, safeMin, safeMax)

NoAction == [SetOverride |-> FALSE, ClearOverride |-> FALSE, OverrideMode |-> NULL,
             TriggerZone |-> NULL, ActivateZones |-> <<>>, DeactivateZones |-> <<>>]

evaluateFailsafeActions(zoneStates, override, minTemp, maxTemp, spread) ==
  LET k == ScanUnsafe(zoneStates, 1, minTemp, maxTemp)
      needsOverride == k # 0
      requiredMode == IF zoneStates[k].Temperature < minTemp
                      THEN ModeHeating ELSE ModeCooling
  IN IF needsOverride /\ ~override
     THEN [NoAction EXCEPT !.SetOverride = TRUE,
                           !.OverrideMode = requiredMode,
                           !.TriggerZone = zoneStates[k].Zone,
                           !.ActivateZones = <<[Zone |-> zoneStates[k].Zone,
                                                Mode |-> requiredMode]>>]
     ELSE IF override /\ ~needsOverride
             /\ ScanAllSafe(zoneStates, 1, minTemp + spread, maxTemp - spread)
     THEN [NoAction EXCEPT !.ClearOverride = TRUE,
                           !.DeactivateZones =
                             [i \in 1..Len(zoneStates) |-> zoneStates[i].Zone]]
     ELSE NoAction

\* db.SetSystemOverride on sys = [systemMode, overrideActive, priorSystemMode]
SetSystemOverride(sys, newMode) ==
  [systemMode |-> newMode, overrideActive |-> TRUE, priorSystemMode |-> sys.systemMode]

\* a clear that always goes back to off
ClearToOff(sys) ==
  [systemMode |-> ModeOff, overrideActive |-> FALSE, priorSystemMode |-> NULL]

\* db.ClearSystemOverride
ClearSystemOverride(sys) ==
  LET restoreMode == IF sys.priorSystemMode # NULL /\ sys.priorSystemMode # ""
                     THEN sys.priorSystemMode ELSE ModeOff
  IN [systemMode |-> restoreMode, overrideActive |-> FALSE, priorSystemMode |-> NULL]

\* db.UpdateSystemMode
UpdateSystemMode(sys, mode) == [sys EXCEPT !.systemMode = mode]

activateZoneDistribution(hw, z, mode, t) ==
  LET canH == CanToggleIn(hw.level, GetAirHandlerByID(hw.lastChanged, z), t)
      ch == [ctl |-> "failsafe", guard |-> canH]
      a1 == IF HasAirHandler(z) /\ canH /\ mode \in {ModeCooling, ModeHeating}
            THEN ActivateBlower(hw, ch, GetAirHandlerByID(hw.lastChanged, z), t)
            ELSE hw
      a2 == IF HasAirHandler(z) /\ canH /\ mode \in {ModeCooling, ModeHeating}
            THEN ActivateAirHandler(a1, ch, GetAirHandlerByID(a1.lastChanged, z), t)
            ELSE a1
      canL == CanToggleIn(a2.level, GetRadiantLoopByID(a2.lastChanged, z), t)
      cl == [ctl |-> "failsafe", guard |-> canL]
  IN IF HasRadiantLoop(z) /\ mode = ModeHeating /\ canL
     THEN ActivateRadiantLoop(a2, cl, GetRadiantLoopByID(a2.lastChanged, z), t)
     ELSE a2

deactivateZoneDistribution(hw, z, t) ==
  LET canH == CanToggleIn(hw.level, GetAirHandlerByID(hw.lastChanged, z), t)
      ch == [ctl |-> "failsafe", guard |-> canH]
      d1 == IF HasAirHandler(z) /\ canH
            THEN DeactivateAirHandler(hw, ch, GetAirHandlerByID(hw.lastChanged, z), t)
            ELSE hw
      d2 == IF HasAirHandler(z) /\ canH
            THEN DeactivateBlower(d1, ch, GetAirHandlerByID(d1.lastChanged, z), t)
            ELSE d1
      canL == CanToggleIn(d2.level, GetRadiantLoopByID(d2.lastChanged, z), t)
      cl == [ctl |-> "failsafe", guard |-> canL]
  IN IF HasRadiantLoop(z) /\ canL
     THEN DeactivateRadiantLoop(d2, cl, GetRadiantLoopByID(d2.lastChanged, z), t)
     ELSE d2

RECURSIVE ActivateAll(_, _, _, _)
\* executeFailsafeActions, lines 237-240 (the state after a zone is computed
\* once, as the one member of a set)
ActivateAll(hw, zs, i, t) ==
  IF i > Len(zs) THEN hw
  ELSE LET after == {activateZoneDistribution(h, zs[i].Zone, zs[i].Mode, t) : h \in {hw}}
       IN ActivateAll(CHOOSE h \in after : TRUE, zs, i + 1, t)

RECURSIVE DeactivateAll(_, _, _, _)
\* executeFailsafeActions, lines 242-245
DeactivateAll(hw, zs, i, t) ==
  IF i > Len(zs) THEN hw
  ELSE LET after == {deactivateZoneDistribution(h, zs[i], t) : h \in {hw}}
       IN DeactivateAll(CHOOSE h \in after : TRUE, zs, i + 1, t)

\* executeFailsafeActions on es = [hw, sys]; dbOk: the override transaction commits
executeFailsafeActions(es, action, dbOk, t) ==
  IF (action.SetOverride \/ action.ClearOverride) /\ ~dbOk THEN es
  ELSE LET sys1 == IF action.SetOverride
                   THEN SetSystemOverride(es.sys, action.OverrideMode) ELSE es.sys
           sys2 == IF action.ClearOverride THEN ClearSystemOverride(sys1) ELSE sys1
           hw1 == ActivateAll(es.hw, action.ActivateZones, 1, t)
           hw2 == DeactivateAll(hw1, action.DeactivateZones, 1, t)
       IN [hw |-> hw2, sys |-> sys2]

Sys0 == [systemMode |-> systemMode, overrideActive |-> overrideActive,
         priorSystemMode |-> priorSystemMode]

\* One cycle of the failsafe controller.
FailsafeCycle ==
  \E dbOk \in BOOLEAN :
    \E action \in {evaluateFailsafeActions(gatherZoneStates(zones, temperature),
                     overrideActive, SystemOverrideMinTemp, SystemOverrideMaxTemp, Spread)} :
    \E es \in {executeFailsafeActions([hw |-> Hw0, sys |-> Sys0], action, dbOk, now)} :
       /\ dbOk \/ action.SetOverride \/ action.ClearOverride
       /\ systemMode' = es.sys.systemMode
       /\ overrideActive' = es.sys.overrideActive
       /\ priorSystemMode' = es.sys.priorSystemMode
       /\ level' = es.hw.level
       /\ lastChanged' = es.hw.lastChanged
       /\ ops' = es.hw.ops
       /\ forcedOnAt' = ForcedAfter(es.hw.level, es.hw.ops)
       /\ episodeMode' = IF action.SetOverride /\ dbOk THEN systemMode ELSE episodeMode
       /\ fs' = [ran |-> TRUE, overrideBefore |-> overrideActive,
                 modeBefore |-> systemMode, dbOk |-> dbOk,
                 SetOverride |-> action.SetOverride,
                 ClearOverride |-> action.ClearOverride,
                 OverrideMode |-> action.OverrideMode,
                 TriggerZone |-> action.TriggerZone,
                 ActivateZones |-> action.ActivateZones,
                 DeactivateZones |-> action.DeactivateZones]
       /\ UNCHANGED <<zones, now, recirculationActive, recirculationStartedAt, stuckCleared,
                      zoneMode, temperature, zonePc, zoneLocal, heatPumps, events, guardDevice,
                      guardResult, sensorZone, history, readings, pollCycle, mainPower, pr,
                      goodRun, sourceActive, sourceLastChanged, boilers, tc, bc>>

(***************************************************************************)
(* The environment: the API (internal/api), the temperature service and    *)
(* the clock.  The three input actions leave the count of inputs (events)  *)
(* to the specification that uses them.                                    *)
(***************************************************************************)
\* the readings a sensor may report in the combined specification
Readings == {540, 680}

\* the boot time: late enough for a stamp to be older than RecirculationInterval
StartTime == RecirculationInterval + 10

isValidSystemMode(mode) == mode \in {ModeOff, ModeHeating, ModeCooling, ModeCirculate}

\* api.setSystemMode: db.UpdateSystemMode, the override columns are left alone
SetSystemMode(m) ==
  /\ isValidSystemMode(m)
  /\ m # systemMode
  /\ systemMode' = UpdateSystemMode(Sys0, m).systemMode
  /\ ops' = <<>>
  /\ fs' = NoFs
  /\ UNCHANGED <<zones, now, level, lastChanged, overrideActive, priorSystemMode,
                 recirculationActive, recirculationStartedAt, stuckCleared, zoneMode,
                 temperature, zonePc, zoneLocal, heatPumps, episodeMode, forcedOnAt, guardDevice,
                 guardResult, sensorZone, history, readings, pollCycle, mainPower, pr, goodRun,
                 sourceActive, sourceLastChanged, boilers, tc, bc>>

\* api.setZoneMode: db.UpdateZoneMode
SetZoneMode(z, m) ==
  /\ isValidSystemMode(m)
  /\ m # zoneMode[z]
  /\ zoneMode' = [zoneMode EXCEPT ![z] = m]
  /\ ops' = <<>>
  /\ fs' = NoFs
  /\ UNCHANGED <<zones, now, level, lastChanged, systemMode, overrideActive, priorSystemMode,
                 recirculationActive, recirculationStartedAt, stuckCleared, temperature, zonePc,
                 zoneLocal, heatPumps, episodeMode, forcedOnAt, guardDevice, guardResult,
                 sensorZone, history, readings, pollCycle, mainPower, pr, goodRun, sourceActive,
                 sourceLastChanged, boilers, tc, bc>>

\* the temperature service has a new valid reading for the zone's sensor
NewReading(z, v) ==
  /\ v # temperature[z]
  /\ temperature' = [temperature EXCEPT ![z] = v]
  /\ ops' = <<>>
  /\ fs' = NoFs
  /\ UNCHANGED <<zones, now, level, lastChanged, systemMode, overrideActive, priorSystemMode,
                 recirculationActive, recirculationStartedAt, stuckCleared, zoneMode, zonePc,
                 zoneLocal, heatPumps, episodeMode, forcedOnAt, guardDevice, guardResult,
                 sensorZone, history, readings, pollCycle, mainPower, pr, goodRun, sourceActive,
                 sourceLastChanged, boilers, tc, bc>>

\* a command or a reading arrives: at most MaxEvents of them in a behaviour
Event ==
  /\ events < MaxEvents
  /\ \/ \E m \in Modes : SetSystemMode(m)
     \/ \E z \in ZoneIds, m \in Modes : SetZoneMode(z, m)
     \/ \E z \in ZoneIds, v \in Readings : NewReading(z, v)
  /\ events' = events + 1

\* a minute passes; no cycle is in flight for a minute
Tick ==
  /\ now < StartTime + MaxTicks
  /\ \A z \in ZoneIds : zonePc[z] = "idle"
  /\ now' = now + 1
  /\ ops' = <<>>
  /\ fs' = NoFs
  /\ UNCHANGED <<zones, level, lastChanged, systemMode, overrideActive, priorSystemMode,
                 recirculationActive, recirculationStartedAt, stuckCleared, zoneMode,
                 temperature, zonePc, zoneLocal, heatPumps, events, episodeMode, forcedOnAt,
                 guardDevice, guardResult, sensorZone, history, readings, pollCycle, mainPower,
                 pr, goodRun, sourceActive, sourceLastChanged, boilers, tc, bc>>

(***************************************************************************)
(* The combined specification: the three controllers, the API, the         *)
(* readings and the clock.                                                 *)
(***************************************************************************)
\* temperature.NewServiceForTest: the configuration of the filter, in tenths of a degree
maxTempDelta == 50
garageTempDelta == 250
maxAnomalies == 6
historySize == 20

\* the zero time.Time, older than every time of the model
ZeroTime == 0 - 100000

\* the zero Reading
ZeroReading == [Temperature |-> 0, Timestamp |-> ZeroTime, Valid |-> FALSE]

\* s.history[sensorID] == nil
NoHistory == [Created |-> FALSE, Readings |-> <<>>, AnomalyCount |-> 0, RecoveryCount |-> 0,
              Disabled |-> FALSE, LastGoodReading |-> ZeroReading, SensorZone |-> NULL]

\* s.readings has no entry for the sensor
NoPublished == [Exists |-> FALSE, Reading |-> ZeroReading]

NoPr == [ran |-> FALSE, temp |-> 0, accepted |-> FALSE, before |-> NoHistory,
         published |-> NoPublished, sent |-> <<>>, shutdown |-> FALSE, swings |-> 0]

\* the temperature service as constructed: no history, nothing published
FilterIdle ==
  /\ sensorZone = "main_floor"
  /\ history = NoHistory
  /\ readings = NoPublished
  /\ pollCycle = 0
  /\ mainPower = TRUE
  /\ pr = NoPr
  /\ goodRun = 0

\* the heat-source configuration: thresholds in tenths of a degree, times in minutes
HeatingThreshold == 1050
CoolingThreshold == 400
SecondaryMargin == 100
TertiaryMargin == 300
RoleRotationMinutes == 1440
HeatPumpMinOn == 10
HeatPumpMinOff == 5
BoilerMinOn == 2
BoilerMinOff == 5

\* the heat sources: the heat pumps by row id, and the boiler
BoilerId == 3
HeatSourceIds == HeatPumpIds \cup {BoilerId}

NoBc == [ran |-> FALSE, bufferTemp |-> 0, readFailed |-> FALSE, mode |-> NULL,
         bothOnline |-> FALSE, elapsed |-> 0, rotated |-> FALSE, swapFailed |-> FALSE,
         before |-> <<>>, after |-> <<>>, Primary |-> 0, Secondary |-> 0, Tertiary |-> 0,
         prevRan |-> FALSE, prevPrimary |-> 0, prevSecondary |-> 0, calls |-> <<>>,
         panicked |-> FALSE, stage |-> "idle", refreshMode |-> NULL, fatal |-> FALSE,
         activeBefore |-> <<>>, at |-> 0, refused |-> {}, prevRefused |-> {}]

\* no call made yet on a heat-source function
NoTc == [n |-> 0, role |-> "primary", mode |-> ModeOff, fn |-> "none", active |-> FALSE,
         bufferTemp |-> 0, source |-> 0, canToggle |-> FALSE, fatal |-> FALSE,
         returned |-> [a \in BOOLEAN |-> FALSE], value |-> [a \in BOOLEAN |-> 0],
         calls |-> <<>>, sources |-> [ok |-> FALSE, Primary |-> 0, Secondary |-> 0, Tertiary |-> 0]]

\* the boilers table as seeded: one boiler, online
SeededBoilers == <<[online |-> TRUE]>>

\* the boilers table of an installation: no boiler configured, or one boiler
\* that is online or taken offline for maintenance
BoilerTables == {<<>>, <<[online |-> TRUE]>>, <<[online |-> FALSE]>>}

\* the heat sources as seeded: every relay released
BufferIdle ==
  /\ sourceActive = [s \in HeatSourceIds |-> FALSE]
  /\ sourceLastChanged = [s \in HeatSourceIds |-> 0]
  /\ boilers = SeededBoilers
  /\ tc = NoTc
  /\ bc = NoBc

GuardDevice0 == [Pin |-> GPIOPin(5), MinOn |-> AirHandlerMinOn,
                 MinOff |-> AirHandlerMinOff, LastChanged |-> 0]
NoGuardCall == [called |-> FALSE, result |-> FALSE, device |-> GuardDevice0,
                level |-> <<>>, stamps |-> <<>>, store |-> <<>>]
HeatPumps0 == [h \in HeatPumpIds |-> [isPrimary |-> h = 1, online |-> TRUE, lastRotated |-> 0]]

\* The store as seeded (system and zones off, no override, no recirculation),
\* every relay released, at the first cycle of the controllers.  The stamps
\* are those of the seeding a few minutes earlier (the controllers sleep for
\* minutes before their first cycle), or the air handlers have been idle for
\* longer than the recirculation interval (a restart on an existing store).
Init ==
  /\ now = StartTime
  /\ zones = ZoneList
  /\ level = [n \in PinNumbers |-> ~RelayBoardActiveHigh]
  /\ \E old \in {{}, DOMAIN AirHandlers} :
       lastChanged = [d \in DeviceNames |->
                        IF \E z \in old : AirHandlers[z].Name = d
                        THEN StartTime - RecirculationInterval - 1
                        ELSE StartTime - (RadiantLoopMinOff + 1)]
  /\ systemMode = ModeOff
  /\ overrideActive = FALSE
  /\ priorSystemMode = NULL
  /\ recirculationActive = FALSE
  /\ recirculationStartedAt = NoTime
  /\ stuckCleared = FALSE
  /\ zoneMode = [z \in ZoneIds |-> ModeOff]
  /\ temperature = [z \in ZoneIds |-> 700]
  /\ zonePc = [z \in ZoneIds |-> "idle"]
  /\ zoneLocal = [z \in ZoneIds |-> NoLocal]
  /\ heatPumps = HeatPumps0
  /\ events = 0
  /\ ops = <<>>
  /\ fs = NoFs
  /\ episodeMode = NULL
  /\ forcedOnAt = [z \in DOMAIN AirHandlers |-> NoTime]
  /\ guardDevice = GuardDevice0
  /\ guardResult = NoGuardCall
  /\ FilterIdle
  /\ BufferIdle

Next ==
  \/ \E z \in ZoneIds : ZoneEvaluate(z)
  \/ \E z \in ZoneIds : ZoneActuate(z)
  \/ RecirculationCycle
  \/ FailsafeCycle
  \/ Event
  \/ Tick

Spec == Init /\ [][Next]_vars

(***************************************************************************)
(* The guard specification: CanToggle applied to a device, a pin level     *)
(* and a time drawn from bounded sets.                                     *)
(***************************************************************************)
GuardPinNumber == AirHandlers["main_floor"].Pin.Number
GuardTimes == 0..GuardMaxTime
GuardDevices ==
  [Pin : [Number : {GuardPinNumber}, ActiveHigh : BOOLEAN],
   MinOn : {AirHandlerMinOn, RadiantLoopMinOn},
   MinOff : {AirHandlerMinOff, RadiantLoopMinOff},
   LastChanged : GuardTimes]

InitGuard ==
  /\ now \in GuardTimes
  /\ zones = ZoneList
  /\ \E lv \in BOOLEAN :
       level = [n \in PinNumbers |-> IF n = GuardPinNumber THEN lv ELSE ~RelayBoardActiveHigh]
  /\ guardDevice \in GuardDevices
  /\ guardResult = NoGuardCall
  /\ FilterIdle
  /\ BufferIdle
  /\ lastChanged = [d \in DeviceNames |-> 0]
  /\ systemMode = ModeOff
  /\ overrideActive = FALSE
  /\ priorSystemMode = NULL
  /\ recirculationActive = FALSE
  /\ recirculationStartedAt = NoTime
  /\ stuckCleared = FALSE
  /\ zoneMode = [z \in ZoneIds |-> ModeOff]
  /\ temperature = [z \in ZoneIds |-> 700]
  /\ zonePc = [z \in ZoneIds |-> "idle"]
  /\ zoneLocal = [z \in ZoneIds |-> NoLocal]
  /\ heatPumps = HeatPumps0
  /\ events = 0
  /\ ops = <<>>
  /\ fs = NoFs
  /\ episodeMode = NULL
  /\ forcedOnAt = [z \in DOMAIN AirHandlers |-> NoTime]

\* a caller asks the guard about the device at the present time
GuardCall ==
  /\ ~guardResult.called
  /\ guardResult' = [called |-> TRUE, result |-> CanToggle(guardDevice, now),
                     device |-> guardDevice, level |-> level,
                     stamps |-> lastChanged, store |-> storeVars]
  /\ UNCHANGED <<zones, now, level, lastChanged, systemMode, overrideActive, priorSystemMode,
                 recirculationActive, recirculationStartedAt, stuckCleared, zoneMode,
                 temperature, zonePc, zoneLocal, heatPumps, events, ops, fs, episodeMode,
                 forcedOnAt, guardDevice, sensorZone, history, readings, pollCycle, mainPower,
                 pr, goodRun, sourceActive, sourceLastChanged, boilers, tc, bc>>

\* the relay of the device is switched (gpio.Activate or gpio.Deactivate)
GuardSwitch ==
  /\ level' = IF CurrentlyActive(guardDevice.Pin)
              THEN Deactivate(level, guardDevice.Pin)
              ELSE Activate(level, guardDevice.Pin)
  /\ guardResult' = NoGuardCall
  /\ UNCHANGED <<zones, now, lastChanged, systemMode, overrideActive, priorSystemMode,
                 recirculationActive, recirculationStartedAt, stuckCleared, zoneMode,
                 temperature, zonePc, zoneLocal, heatPumps, events, ops, fs, episodeMode,
                 forcedOnAt, guardDevice, sensorZone, history, readings, pollCycle, mainPower,
                 pr, goodRun, sourceActive, sourceLastChanged, boilers, tc, bc>>

\* a minute passes
GuardTick ==
  /\ now < GuardMaxTime
  /\ now' = now + 1
  /\ guardResult' = NoGuardCall
  /\ UNCHANGED <<zones, level, lastChanged, systemMode, overrideActive, priorSystemMode,
                 recirculationActive, recirculationStartedAt, stuckCleared, zoneMode,
                 temperature, zonePc, zoneLocal, heatPumps, events, ops, fs, episodeMode,
                 forcedOnAt, guardDevice, sensorZone, history, readings, pollCycle, mainPower,
                 pr, goodRun, sourceActive, sourceLastChanged, boilers, tc, bc>>

NextGuard == GuardCall \/ GuardSwitch \/ GuardTick

SpecGuard == InitGuard /\ [][NextGuard]_vars

(***************************************************************************)
(* The heat-pump specification: role swaps (db.SwapPrimaryHeatPump, called *)
(* by buffercontroller.RefreshSources) and online changes                  *)
(* (db.UpdateDeviceOnlineStatus).                                          *)
(***************************************************************************)
\* where a swap may fail; "none": it commits
SwapFailures == {"none", "begin", "find_current", "find_new", "unset", "set", "commit"}

\* a transaction that keeps the statements executed before the failure
KeepWork(store, work) == work

\* tx.Rollback: the store is what it was when the transaction began
Rollback(store, work) == store

\* db.SwapPrimaryHeatPump on the heat-pump rows hps; newID is the row the
\* second query returns when there is one
SwapPrimaryHeatPump(hps, failAt, newID, t) ==
  LET primaries == {h \in HeatPumpIds : hps[h].isPrimary}
      currentID == CHOOSE h \in primaries : \A g \in primaries : h <= g
      work3 == [hps EXCEPT ![currentID] = [@ EXCEPT !.isPrimary = FALSE, !.lastRotated = t]]
      work4 == [work3 EXCEPT ![newID] = [@ EXCEPT !.isPrimary = TRUE, !.lastRotated = t]]
  IN IF failAt = "begin" THEN hps
     ELSE IF primaries = {} \/ failAt = "find_current" THEN Rollback(hps, hps)
     ELSE IF newID = currentID \/ failAt = "find_new" THEN Rollback(hps, hps)
     ELSE IF failAt = "unset" THEN Rollback(hps, hps)
     ELSE IF failAt = "set" THEN Rollback(hps, work3)
     ELSE IF failAt = "commit" THEN Rollback(hps, work4)
     ELSE work4

\* the rows the second query of the swap may return: the other heat pumps
\* rotated least recently (the current primary itself when there is no other)
SwapCandidates(hps) ==
  LET primaries == {h \in HeatPumpIds : hps[h].isPrimary}
      currentID == CHOOSE h \in primaries : \A g \in primaries : h <= g
      others == IF primaries = {} THEN HeatPumpIds ELSE HeatPumpIds \ {currentID}
      least == {h \in others : \A g \in others : hps[h].lastRotated <= hps[g].lastRotated}
  IN IF least = {} THEN {currentID} ELSE least

\* db.UpdateDeviceOnlineStatus
UpdateDeviceOnlineStatus(hps, id, online) == [hps EXCEPT ![id].online = online]

HpUnchanged ==
  UNCHANGED <<zones, now, level, lastChanged, systemMode, overrideActive, priorSystemMode,
              recirculationActive, recirculationStartedAt, stuckCleared, zoneMode, temperature,
              zonePc, zoneLocal, fs, episodeMode, forcedOnAt, guardDevice, guardResult,
              sensorZone, history, readings, pollCycle, mainPower, pr, goodRun, sourceActive,
              sourceLastChanged, boilers, tc, bc>>

\* a role rotation is attempted
SwapPrimary ==
  /\ events < MaxHpOps
  /\ \E failAt \in SwapFailures, newID \in SwapCandidates(heatPumps) :
       /\ heatPumps' = SwapPrimaryHeatPump(heatPumps, failAt, newID, now)
       /\ ops' = <<[ctl |-> "buffer", call |-> "SwapPrimaryHeatPump", failAt |-> failAt]>>
  /\ events' = events + 1
  /\ HpUnchanged

\* a heat pump is taken offline or brought back online
SetOnline ==
  /\ events < MaxHpOps
  /\ \E id \in HeatPumpIds, online \in BOOLEAN :
       /\ online # heatPumps[id].online
       /\ heatPumps' = UpdateDeviceOnlineStatus(heatPumps, id, online)
  /\ ops' = <<>>
  /\ events' = events + 1
  /\ HpUnchanged

NextHP == SwapPrimary \/ SetOnline \/ Tick

SpecHP == Init /\ [][NextHP]_vars

(***************************************************************************)
(* The failsafe specification: failsafe cycles over readings at and around *)
(* the bounds, with the zones table in any row order.                      *)
(***************************************************************************)
\* the readings a sensor may report in the failsafe specification
FailsafeReadings ==
  [main_floor |-> {NoReading, 549, 550, 599, 600, 850, 851, 900, 901},
   basement   |-> {NoReading, 549, 700, 901},
   garage     |-> {549, 700, 901}]

ZoneOrders ==
  {o \in [1..Len(ZoneList) -> ZoneIds] : \A z \in ZoneIds : \E i \in DOMAIN o : o[i] = z}

\* The seeded store with the zones in some row order; the house is either at
\* a comfortable temperature or the main floor is already below the minimum.
InitFailsafe ==
  /\ now = StartTime
  /\ zones \in ZoneOrders
  /\ level = [n \in PinNumbers |-> ~RelayBoardActiveHigh]
  /\ lastChanged = [d \in DeviceNames |-> StartTime - RecirculationInterval - 1]
  /\ systemMode = ModeOff
  /\ overrideActive = FALSE
  /\ priorSystemMode = NULL
  /\ recirculationActive = FALSE
  /\ recirculationStartedAt = NoTime
  /\ stuckCleared = FALSE
  /\ zoneMode = [z \in ZoneIds |-> ModeOff]
  /\ \E t \in {549, 700} : temperature = [z \in ZoneIds |-> IF z = "main_floor" THEN t ELSE 700]
  /\ zonePc = [z \in ZoneIds |-> "idle"]
  /\ zoneLocal = [z \in ZoneIds |-> NoLocal]
  /\ heatPumps = HeatPumps0
  /\ events = 0
  /\ ops = <<>>
  /\ fs = NoFs
  /\ episodeMode = NULL
  /\ forcedOnAt = [z \in DOMAIN AirHandlers |-> NoTime]
  /\ guardDevice = GuardDevice0
  /\ guardResult = NoGuardCall
  /\ FilterIdle
  /\ BufferIdle

\* a command or a reading arrives
FailsafeEvent ==
  /\ events < MaxEvents
  /\ \/ \E m \in Modes : SetSystemMode(m)
     \/ \E z \in ZoneIds : \E v \in FailsafeReadings[z] : NewReading(z, v)
  /\ events' = events + 1

NextFailsafe == FailsafeCycle \/ FailsafeEvent

SpecFailsafe == InitFailsafe /\ [][NextFailsafe]_vars

(***************************************************************************)
(* The temperature service (temperature.Service): the anomaly filter       *)
(* between the raw reads and the consumers.  Temperatures are in tenths of *)
(* a degree, times in poll intervals; ReadingHistory.Readings holds the    *)
(* temperatures of the buffered readings, the only field the code reads.   *)
(***************************************************************************)
Abs(x) == IF x < 0 THEN 0 - x ELSE x

RECURSIVE SumTemps(_)
SumTemps(ts) == IF ts = <<>> THEN 0 ELSE Head(ts) + SumTemps(Tail(ts))

\* n * n times the sum of the squared distances from the mean sum / n
RECURSIVE SumSquares(_, _, _)
SumSquares(ts, n, sum) ==
  IF ts = <<>> THEN 0
  ELSE (n * Head(ts) - sum) * (n * Head(ts) - sum) + SumSquares(Tail(ts), n, sum)

\* the threshold of isAnomalousReading, isGoodReading and detectStableNewBaseline
\* the two zone thresholds exchanged
DeltaThresholdSwapped(h) == IF h.SensorZone = "garage" THEN maxTempDelta ELSE garageTempDelta

DeltaThreshold(h) == IF h.SensorZone = "garage" THEN garageTempDelta ELSE maxTempDelta

isAnomalousReading(h, temp) ==
  IF h.LastGoodReading.Temperature = 0 THEN FALSE
  ELSE Abs(temp - h.LastGoodReading.Temperature) > DeltaThreshold(h)

isGoodReading(h, temp) ==
  IF h.LastGoodReading.Temperature = 0 THEN TRUE
  ELSE Abs(temp - h.LastGoodReading.Temperature) <= DeltaThreshold(h)

\* the second check of detectStableNewBaseline: a monotonic drift in small steps
GradualChange(h, anomalousTemps) ==
  LET increasing == anomalousTemps[2] > anomalousTemps[1]
      delta(i) == anomalousTemps[i] - anomalousTemps[i - 1]
      steps == 2..Len(anomalousTemps)
      isMonotonic == \A i \in steps : /\ ~(increasing /\ delta(i) < 0 - 5)
                                      /\ ~(~increasing /\ delta(i) > 5)
      maxDelta == CHOOSE m \in {0} \cup {Abs(delta(i)) : i \in steps} :
                    \A i \in steps : Abs(delta(i)) <= m
  IN isMonotonic /\ maxDelta > 0 /\ maxDelta <= DeltaThreshold(h)

\* stdDev < 2.0 of the last three readings is 27 * variance < 27 * 400 on
\* SumSquares; |mean - lastGood| > maxDeviation is |sum - 3 * lastGood| > 3 * cap
detectStableNewBaseline(h, newTemp) ==
  IF h.AnomalyCount < 1 THEN FALSE
  ELSE IF Len(h.Readings) < maxAnomalies + 2 THEN FALSE
  ELSE LET n == Len(h.Readings)
           recentTemps == SubSeq(h.Readings, n - 2, n)
           sum == SumTemps(recentTemps)
           anomalousTemps == SubSeq(h.Readings, maxAnomalies + 1, n)
           maxDeviation == IF h.SensorZone = "garage" THEN 300 ELSE 150
       IN IF SumSquares(recentTemps, 3, sum) < 10800 THEN TRUE
          ELSE IF h.AnomalyCount >= 4 THEN FALSE
          ELSE IF Len(anomalousTemps) < 2 THEN FALSE
          ELSE IF Abs(sum - 3 * h.LastGoodReading.Temperature) > 3 * maxDeviation THEN FALSE
          ELSE GradualChange(h, anomalousTemps)

\* a bootstrap analysis that drops the outliers from the buffer instead of
\* counting them
analyzeBootstrapHistoryDropOutliers(h, t) ==
  IF Len(h.Readings) # maxAnomalies THEN h
  ELSE LET n == Len(h.Readings)
           sum == SumTemps(h.Readings)
           ss == SumSquares(h.Readings, n, sum)
           inlier(r) == ~(n * (n * r - sum) * (n * r - sum) > 4 * ss)
           kept == SelectSeq(h.Readings, inlier)
       IN [h EXCEPT !.Readings = kept,
                    !.LastGoodReading =
                      [Temperature |-> IF kept = <<>> THEN sum \div n ELSE kept[Len(kept)],
                       Timestamp |-> t, Valid |-> TRUE]]

\* |r - mean| > 2 * stdDev is n * (n * r - sum)^2 > 4 * SumSquares
analyzeBootstrapHistory(h, t) ==
  IF Len(h.Readings) # maxAnomalies THEN h
  ELSE LET n == Len(h.Readings)
           sum == SumTemps(h.Readings)
           ss == SumSquares(h.Readings, n, sum)
           outlier(i) == n * (n * h.Readings[i] - sum) * (n * h.Readings[i] - sum) > 4 * ss
           good == {i \in 1..n : ~outlier(i)}
           lastGoodTemp == IF good = {} THEN 0
                           ELSE h.Readings[CHOOSE i \in good : \A j \in good : j <= i]
       IN [h EXCEPT !.LastGoodReading =
                      [Temperature |-> IF lastGoodTemp > 0 THEN lastGoodTemp ELSE sum \div n,
                       Timestamp |-> t, Valid |-> TRUE],
                    !.AnomalyCount = Cardinality({i \in 1..n : outlier(i)})]

addToHistory(h, temp) ==
  [h EXCEPT !.Readings = Append(IF Len(@) >= historySize THEN Tail(@) ELSE @, temp)]

\* a disable that never shuts the system down
checkDisableThresholdNoShutdown(h, temp) ==
  IF h.AnomalyCount >= maxAnomalies /\ ~h.Disabled
  THEN [history |-> [h EXCEPT !.Disabled = TRUE],
        sent |-> <<[kind |-> "disable", zone |-> h.SensorZone, temp |-> temp,
                    lastGood |-> h.LastGoodReading.Temperature]>>,
        shutdown |-> FALSE]
  ELSE [history |-> h, sent |-> <<>>, shutdown |-> FALSE]

\* a threshold that is passed only above maxAnomalies
checkDisableThresholdAbove(h, temp) ==
  IF h.AnomalyCount > maxAnomalies /\ ~h.Disabled
  THEN [history |-> [h EXCEPT !.Disabled = TRUE],
        sent |-> <<[kind |-> "disable", zone |-> h.SensorZone, temp |-> temp,
                    lastGood |-> h.LastGoodReading.Temperature]>>,
        shutdown |-> h.SensorZone = "buffer_tank"]
  ELSE [history |-> h, sent |-> <<>>, shutdown |-> FALSE]

\* sendDisableNotification, and shutdowner.Shutdown for the buffer tank
checkDisableThreshold(h, temp) ==
  IF h.AnomalyCount >= maxAnomalies /\ ~h.Disabled
  THEN [history |-> [h EXCEPT !.Disabled = TRUE],
        sent |-> <<[kind |-> "disable", zone |-> h.SensorZone, temp |-> temp,
                    lastGood |-> h.LastGoodReading.Temperature]>>,
        shutdown |-> h.SensorZone = "buffer_tank"]
  ELSE [history |-> h, sent |-> <<>>, shutdown |-> FALSE]

Publish(reading) == [Exists |-> TRUE, Reading |-> reading]

\* Service.processReading on the history h0 and the published reading pub of
\* one sensor; shutdown: the process ends inside checkDisableThreshold
processReading(h0, pub, zone, temp, t) ==
  LET h == IF h0.Created THEN h0
           ELSE [NoHistory EXCEPT !.Created = TRUE, !.SensorZone = zone]
      newReading == [Temperature |-> temp, Timestamp |-> t, Valid |-> temp > 0]
      Result(hist, rd, acc, sent, down) ==
        [history |-> hist, readings |-> rd, accepted |-> acc, sent |-> sent, shutdown |-> down]
  IN IF ~newReading.Valid
     THEN LET c == checkDisableThreshold([h EXCEPT !.AnomalyCount = @ + 1], temp)
          IN Result(c.history, pub, FALSE, c.sent, c.shutdown)
     ELSE IF Len(h.Readings) < maxAnomalies
     THEN LET h1 == [h EXCEPT !.Readings = Append(@, temp), !.LastGoodReading = newReading]
              h2 == IF Len(h1.Readings) = maxAnomalies THEN analyzeBootstrapHistory(h1, t) ELSE h1
          IN Result(h2, Publish(newReading), TRUE, <<>>, FALSE)
     ELSE IF h.Disabled
     THEN IF isGoodReading(h, temp)
          THEN IF h.RecoveryCount + 1 >= maxAnomalies
               THEN Result(addToHistory([h EXCEPT !.Disabled = FALSE, !.AnomalyCount = 0,
                                                  !.RecoveryCount = 0,
                                                  !.LastGoodReading = newReading], temp),
                           Publish(newReading), TRUE,
                           <<[kind |-> "recovery", zone |-> zone, temp |-> temp,
                              lastGood |-> temp]>>, FALSE)
               ELSE Result(addToHistory([h EXCEPT !.RecoveryCount = @ + 1], temp),
                           Publish(newReading), TRUE, <<>>, FALSE)
          ELSE Result([h EXCEPT !.RecoveryCount = 0], Publish(h.LastGoodReading),
                      FALSE, <<>>, FALSE)
     ELSE IF isAnomalousReading(h, temp)
     THEN LET h1 == addToHistory(h, temp)
          IN IF detectStableNewBaseline(h1, temp)
             THEN Result([h1 EXCEPT !.AnomalyCount = 0, !.LastGoodReading = newReading],
                         Publish(newReading), TRUE, <<>>, FALSE)
             ELSE LET c == checkDisableThreshold([h1 EXCEPT !.AnomalyCount = @ + 1], temp)
                  IN Result(c.history, Publish(c.history.LastGoodReading), FALSE,
                            c.sent, c.shutdown)
     ELSE Result(addToHistory([h EXCEPT !.AnomalyCount =
                                           IF Len(h.Readings) > maxAnomalies THEN 0 ELSE @,
                                        !.RecoveryCount = 0,
                                        !.LastGoodReading = newReading], temp),
                 Publish(newReading), TRUE, <<>>, FALSE)

\* Service.GetTemperature at time t; stale: older than two poll intervals
GetTemperature(pub, t) ==
  IF ~pub.Exists THEN [temp |-> 0, valid |-> FALSE]
  ELSE IF t - pub.Reading.Timestamp > 2 THEN [temp |-> 0, valid |-> FALSE]
  ELSE IF ~pub.Reading.Valid THEN [temp |-> 0, valid |-> FALSE]
  ELSE [temp |-> pub.Reading.Temperature, valid |-> TRUE]

\* what gpio.ReadSensorTempWithRetries returns: 0 for a read that failed, the
\* house at its usual temperature, or a reading away from it
FailedRead == 0
SteadyTemps == {700}
SwingTemps == {760, 780}
RecoverySwingTemps == {760}
SensorZones == {"main_floor", "garage", "buffer_tank"}

\* the seeded store and a temperature service that has read nothing yet
InitFilter ==
  /\ now = StartTime
  /\ zones = ZoneList
  /\ level = [n \in PinNumbers |-> ~RelayBoardActiveHigh]
  /\ lastChanged = [d \in DeviceNames |-> StartTime - (RadiantLoopMinOff + 1)]
  /\ systemMode = ModeOff
  /\ overrideActive = FALSE
  /\ priorSystemMode = NULL
  /\ recirculationActive = FALSE
  /\ recirculationStartedAt = NoTime
  /\ stuckCleared = FALSE
  /\ zoneMode = [z \in ZoneIds |-> ModeOff]
  /\ temperature = [z \in ZoneIds |-> 700]
  /\ zonePc = [z \in ZoneIds |-> "idle"]
  /\ zoneLocal = [z \in ZoneIds |-> NoLocal]
  /\ heatPumps = HeatPumps0
  /\ events = 0
  /\ ops = <<>>
  /\ fs = NoFs
  /\ episodeMode = NULL
  /\ forcedOnAt = [z \in DOMAIN AirHandlers |-> NoTime]
  /\ guardDevice = GuardDevice0
  /\ guardResult = NoGuardCall
  /\ sensorZone \in SensorZones
  /\ history = NoHistory
  /\ readings = NoPublished
  /\ pollCycle = 0
  /\ mainPower = TRUE
  /\ pr = NoPr
  /\ goodRun = 0
  /\ BufferIdle

\* one cycle of readAllSensors for the sensor: the raw read, one of temps,
\* then processReading with the time of the cycle; shutdown.Shutdown releases
\* the main power relay and ends the process
readAllSensors(temps, maxReadings, maxSwings) ==
  /\ mainPower
  /\ events < maxReadings
  /\ \E temp \in temps :
       LET swing == IF temp \in SwingTemps THEN 1 ELSE 0
           r == processReading(history, readings, sensorZone, temp, pollCycle + 1)
           lastGood == history.LastGoodReading.Temperature
           threshold == IF sensorZone = "garage" THEN garageTempDelta ELSE maxTempDelta
       IN /\ pr.swings + swing <= maxSwings
          /\ history' = r.history
          /\ readings' = r.readings
          /\ mainPower' = ~r.shutdown
          /\ pr' = [ran |-> TRUE, temp |-> temp, accepted |-> r.accepted,
                    before |-> history, published |-> readings, sent |-> r.sent,
                    shutdown |-> r.shutdown, swings |-> pr.swings + swing]
          /\ goodRun' = IF history.Disabled /\ history.LastGoodReading.Valid
                        THEN IF Abs(temp - lastGood) <= threshold THEN goodRun + 1 ELSE 0
                        ELSE 0
  /\ pollCycle' = pollCycle + 1
  /\ events' = events + 1
  /\ UNCHANGED <<zones, now, level, lastChanged, systemMode, overrideActive, priorSystemMode,
                 recirculationActive, recirculationStartedAt, stuckCleared, zoneMode,
                 temperature, zonePc, zoneLocal, heatPumps, ops, fs, episodeMode, forcedOnAt,
                 guardDevice, guardResult, sensorZone, sourceActive, sourceLastChanged, boilers,
                 tc, bc>>

\* a sensor whose readings swing
ReadSensor == readAllSensors({FailedRead} \cup SteadyTemps \cup SwingTemps, MaxReadings, MaxSwings)

NextFilter == ReadSensor

SpecFilter == InitFilter /\ [][NextFilter]_vars

\* a sensor that fails and comes back: long runs of failed and steady reads
ReadSensorRecovery ==
  readAllSensors({FailedRead} \cup SteadyTemps \cup RecoverySwingTemps,
                 MaxRecoveryReadings, MaxRecoverySwings)

NextRecovery == ReadSensorRecovery

SpecRecovery == InitFilter /\ [][NextRecovery]_vars

(***************************************************************************)
(* The heat-source specification: the cycle of the buffer controller       *)
(* (internal/controllers/buffercontroller) over a buffer-tank sensor that  *)
(* reads below, inside and above the heating band or fails, heat pumps     *)
(* that go offline and come back, and a rotation that falls due.           *)
(***************************************************************************)
\* the relay pin of every heat source
SourcePin == [h \in HeatSourceIds |-> IF h = 1 THEN 23 ELSE IF h = 2 THEN 24 ELSE 22]

\* the logic levels of the heat-source pins, from the activation states
SourceLevels(act) ==
  [n \in {SourcePin[h] : h \in HeatSourceIds} |->
     LET h == CHOOSE g \in HeatSourceIds : SourcePin[g] = n
     IN IF act[h] THEN GPIOPin(n).ActiveHigh ELSE ~GPIOPin(n).ActiveHigh]

\* the model.Device of a heat source, as read from the devices table
SourceDevice(h, stamps) ==
  [Pin |-> GPIOPin(SourcePin[h]),
   MinOn |-> IF h = BoilerId THEN BoilerMinOn ELSE HeatPumpMinOn,
   MinOff |-> IF h = BoilerId THEN BoilerMinOff ELSE HeatPumpMinOff,
   LastChanged |-> stamps[h]]

\* a comparison that treats every mode but heating as cooling
ShouldBeOnHeatingOrElse(bt, threshold, mode) ==
  IF mode = ModeHeating THEN bt < threshold ELSE bt > threshold

\* a comparison that switches on at the threshold itself
ShouldBeOnInclusive(bt, threshold, mode) ==
  IF mode = ModeHeating THEN bt <= threshold
  ELSE IF mode = ModeCooling THEN bt >= threshold
  ELSE FALSE

\* buffercontroller.ShouldBeOn
ShouldBeOn(bt, threshold, mode) ==
  IF mode = ModeHeating THEN bt < threshold
  ELSE IF mode = ModeCooling THEN bt > threshold
  ELSE FALSE

\* the role names RunBufferController passes
Roles == {"primary", "secondary", "tertiary"}

\* shutdown.ShutdownWithError out of GetThreshold: the main power relay is
\* released and the process exits, no threshold is returned
ThresholdShutdown == [fatal |-> TRUE, value |-> 0]

\* a threshold returned to the caller
Threshold(v) == [fatal |-> FALSE, value |-> v]

\* thresholds whose cooling band lies on the wrong side of the on threshold
GetThresholdCoolingOffAbove(role, mode, active) ==
  LET onHeat == IF role = "primary" THEN HeatingThreshold
                ELSE IF role = "secondary" THEN HeatingThreshold - SecondaryMargin
                ELSE HeatingThreshold - TertiaryMargin
      onCool == IF role = "primary" THEN CoolingThreshold
                ELSE CoolingThreshold + SecondaryMargin
  IN IF role \notin Roles THEN ThresholdShutdown
     ELSE IF mode = ModeHeating THEN Threshold(IF active THEN onHeat + Spread ELSE onHeat)
     ELSE IF mode = ModeCooling
     THEN IF role = "tertiary" THEN ThresholdShutdown
          ELSE Threshold(IF active THEN onCool + Spread ELSE onCool)
     ELSE Threshold(0)

\* buffercontroller.GetThreshold: a role that is none of the three names and
\* the tertiary in cooling shut the system down; a mode other than heating
\* and cooling takes the default branch, which returns 0.0
GetThreshold(role, mode, active) ==
  LET onHeat == IF role = "primary" THEN HeatingThreshold
                ELSE IF role = "secondary" THEN HeatingThreshold - SecondaryMargin
                ELSE HeatingThreshold - TertiaryMargin
      onCool == IF role = "primary" THEN CoolingThreshold
                ELSE CoolingThreshold + SecondaryMargin
  IN IF role \notin Roles THEN ThresholdShutdown
     ELSE IF mode = ModeHeating THEN Threshold(IF active THEN onHeat + Spread ELSE onHeat)
     ELSE IF mode = ModeCooling
     THEN IF role = "tertiary" THEN ThresholdShutdown
          ELSE Threshold(IF active THEN onCool - Spread ELSE onCool)
     ELSE Threshold(0)

\* buffercontroller.EvaluateToggleSource; nothing is returned when
\* GetThreshold shut the system down
EvaluateToggleSource(role, bt, active, lv, d, mode, t) ==
  LET threshold == GetThreshold(role, mode, active)
      should == ShouldBeOn(bt, threshold.value, mode)
  IN IF threshold.fatal THEN FALSE
     ELSE IF should = active THEN FALSE ELSE CanToggleIn(lv, d, t)

\* the evaluation of the source h in a role ends in the shutdown of GetThreshold
EvaluateFatal(role, h, act, mode) ==
  h # 0 /\ GetThreshold(role, mode, act[h]).fatal

\* buffercontroller.EvaluateAndToggle: the call made for one role, if any
EvaluateAndToggle(role, h, act, stamps, bt, mode, t) ==
  IF h = 0 THEN <<>>
  ELSE IF ~EvaluateToggleSource(role, bt, act[h], SourceLevels(act), SourceDevice(h, stamps), mode, t)
  THEN <<>>
  ELSE IF act[h] THEN <<[role |-> role, id |-> h, call |-> "deactivate"]>>
  ELSE <<[role |-> role, id |-> h, call |-> "activate"]>>

\* a lookup that takes the last row marked primary when several are
GetHeatSourcesAnyPrimary(hps, bls) ==
  LET primaries == {h \in HeatPumpIds : hps[h].isPrimary}
      primary == CHOOSE h \in primaries : \A g \in primaries : g <= h
      others == HeatPumpIds \ primaries
  IN IF primaries = {}
     THEN [ok |-> FALSE, Primary |-> 0, Secondary |-> 0, Tertiary |-> 0]
     ELSE [ok |-> TRUE,
           Primary |-> primary,
           Secondary |-> IF others = {} THEN 0 ELSE CHOOSE h \in others : \A g \in others : g <= h,
           Tertiary |-> IF Len(bls) > 0 /\ bls[1].online THEN BoilerId ELSE 0]

\* buffercontroller.GetHeatSources: the rows by role; the tertiary is the
\* first boiler row when there is one and it is online, and nil (0) otherwise
GetHeatSources(hps, bls) ==
  LET primaries == {h \in HeatPumpIds : hps[h].isPrimary}
      others == HeatPumpIds \ primaries
  IN IF Cardinality(primaries) # 1
     THEN [ok |-> FALSE, Primary |-> 0, Secondary |-> 0, Tertiary |-> 0]
     ELSE [ok |-> TRUE,
           Primary |-> CHOOSE h \in primaries : TRUE,
           Secondary |-> CHOOSE h \in others : \A g \in others : g <= h,
           Tertiary |-> IF Len(bls) > 0 /\ bls[1].online THEN BoilerId ELSE 0]

\* a rotation that falls due as soon as the interval has elapsed
RotationDueInclusive(elapsed) == elapsed >= RoleRotationMinutes

\* RefreshSources: the rotation test
RotationDue(elapsed) == elapsed > RoleRotationMinutes

\* a refresh that offers the online boiler in every mode
RefreshSourcesBoilerInCooling(hps, bls, mode, failAt, newID, t) ==
  LET sources == GetHeatSources(hps, bls)
      p == sources.Primary
      q == sources.Secondary
      bothOnline == hps[p].online /\ hps[q].online
      elapsed == t - hps[p].lastRotated
      rotate == bothOnline /\ RotationDue(elapsed)
      newPrimary == IF bothOnline THEN (IF rotate THEN q ELSE p)
                    ELSE IF hps[p].online THEN p
                    ELSE IF hps[q].online THEN q
                    ELSE 0
      newSecondary == IF bothOnline THEN (IF rotate THEN p ELSE q) ELSE 0
  IN [panicked |-> ~hps[p].online /\ ~hps[q].online /\ sources.Tertiary = 0,
      Primary |-> newPrimary, Secondary |-> newSecondary, Tertiary |-> sources.Tertiary,
      bothOnline |-> bothOnline, elapsed |-> elapsed, rotated |-> rotate,
      heatPumps |-> IF rotate THEN SwapPrimaryHeatPump(hps, failAt, newID, t) ELSE hps]

\* buffercontroller.RefreshSources on the rows hps and bls: the roles to act
\* on and the rows the cycle leaves in the store.  With both heat pumps
\* offline the test for offlineHeat reads Online through the tertiary
\* pointer, which is nil when no boiler row is online: the goroutine panics
\* and nothing is returned
RefreshSources(hps, bls, mode, failAt, newID, t) ==
  LET sources == GetHeatSources(hps, bls)
      p == sources.Primary
      q == sources.Secondary
      bothOnline == hps[p].online /\ hps[q].online
      elapsed == t - hps[p].lastRotated
      rotate == bothOnline /\ RotationDue(elapsed)
      newPrimary == IF bothOnline THEN (IF rotate THEN q ELSE p)
                    ELSE IF hps[p].online THEN p
                    ELSE IF hps[q].online THEN q
                    ELSE 0
      newSecondary == IF bothOnline THEN (IF rotate THEN p ELSE q) ELSE 0
      newTertiary == IF mode = ModeCooling THEN 0 ELSE sources.Tertiary
  IN [panicked |-> ~hps[p].online /\ ~hps[q].online /\ sources.Tertiary = 0,
      Primary |-> newPrimary, Secondary |-> newSecondary, Tertiary |-> newTertiary,
      bothOnline |-> bothOnline, elapsed |-> elapsed, rotated |-> rotate,
      heatPumps |-> IF rotate THEN SwapPrimaryHeatPump(hps, failAt, newID, t) ELSE hps]

\* where the swap of a cycle may fail: db.SwapPrimaryHeatPump is called by a
\* cycle that rotates only
SwapOutcomes(hps, bls, t) ==
  IF GetHeatSources(hps, bls).ok /\ RefreshSources(hps, bls, ModeHeating, "none", 1, t).rotated
  THEN SwapFailures ELSE {"none"}

\* device.ActivateHeatPump, DeactivateHeatPump, ActivateBoiler and
\* DeactivateBoiler as the controller calls them: the pin is driven and the
\* stamp is set on the object of the cycle only, the stored stamp stays
ApplySourceCalls(act, calls) ==
  [h \in HeatSourceIds |->
     IF \E i \in 1..Len(calls) : calls[i].id = h /\ calls[i].call = "activate" THEN TRUE
     ELSE IF \E i \in 1..Len(calls) : calls[i].id = h /\ calls[i].call = "deactivate" THEN FALSE
     ELSE act[h]]

\* what the buffer-tank sensor reads, raw: a failed read, below every heating
\* threshold but the tertiary one, the primary threshold itself, inside the
\* primary band, and above it
BufferReads == {FailedRead, 900, HeatingThreshold, 1070, 1120}

\* the heat pumps as the store holds them a minute before a rotation falls due
HeatPumpsDue ==
  [h \in HeatPumpIds |-> [isPrimary |-> h = 1, online |-> TRUE,
                          lastRotated |-> StartTime - (RoleRotationMinutes - 1)]]

\* the store in heating or cooling mode, every heat source released, stamped
\* two minutes short of the minimum on time of a heat pump before the first
\* cycle (the controller sleeps for the minimum off time before it), or a
\* full minimum on time
InitBuffer ==
  /\ now = StartTime
  /\ zones = ZoneList
  /\ level = [n \in PinNumbers |-> ~RelayBoardActiveHigh]
  /\ lastChanged = [d \in DeviceNames |-> StartTime - (RadiantLoopMinOff + 1)]
  /\ systemMode \in {ModeHeating, ModeCooling}
  /\ overrideActive = FALSE
  /\ priorSystemMode = NULL
  /\ recirculationActive = FALSE
  /\ recirculationStartedAt = NoTime
  /\ stuckCleared = FALSE
  /\ zoneMode = [z \in ZoneIds |-> ModeOff]
  /\ temperature = [z \in ZoneIds |-> 700]
  /\ zonePc = [z \in ZoneIds |-> "idle"]
  /\ zoneLocal = [z \in ZoneIds |-> NoLocal]
  /\ heatPumps = HeatPumpsDue
  /\ events = 0
  /\ ops = <<>>
  /\ fs = NoFs
  /\ episodeMode = NULL
  /\ forcedOnAt = [z \in DOMAIN AirHandlers |-> NoTime]
  /\ guardDevice = GuardDevice0
  /\ guardResult = NoGuardCall
  /\ FilterIdle
  /\ sourceActive = [s \in HeatSourceIds |-> FALSE]
  /\ \E age \in {HeatPumpMinOn - 2, HeatPumpMinOn} :
       sourceLastChanged = [s \in HeatSourceIds |-> StartTime - age]
  /\ boilers \in BoilerTables
  /\ tc = NoTc
  /\ bc = NoBc

\* the first half of a cycle of RunBufferController: RefreshSources reads the
\* mode and the rows, rotates the roles when due and returns the sources
RefreshStep ==
  /\ mainPower
  /\ ~bc.panicked
  /\ bc.stage = "idle"
  /\ \E newID \in SwapCandidates(heatPumps), failAt \in SwapOutcomes(heatPumps, boilers, now) :
       IF ~GetHeatSources(heatPumps, boilers).ok
       THEN /\ mainPower' = FALSE
            /\ UNCHANGED <<heatPumps, bc>>
       ELSE \E r \in {RefreshSources(heatPumps, boilers, systemMode, failAt, newID, now)} :
          IF r.panicked
          THEN /\ bc' = [NoBc EXCEPT !.panicked = TRUE, !.refreshMode = systemMode,
                                     !.before = heatPumps, !.after = heatPumps]
               /\ UNCHANGED <<heatPumps, mainPower>>
          ELSE /\ heatPumps' = r.heatPumps
               /\ bc' = [NoBc EXCEPT !.stage = "refreshed", !.refreshMode = systemMode,
                                     !.bothOnline = r.bothOnline, !.elapsed = r.elapsed,
                                     !.rotated = r.rotated,
                                     !.swapFailed = r.rotated /\ r.heatPumps = heatPumps,
                                     !.before = heatPumps, !.after = r.heatPumps,
                                     !.Primary = r.Primary, !.Secondary = r.Secondary,
                                     !.Tertiary = r.Tertiary, !.prevRan = bc.ran,
                                     !.prevPrimary = bc.Primary,
                                     !.prevSecondary = bc.Secondary,
                                     !.prevRefused = bc.refused]
               /\ mainPower' = mainPower
  /\ ops' = <<>>
  /\ UNCHANGED <<zones, now, level, lastChanged, systemMode, overrideActive, priorSystemMode,
                 recirculationActive, recirculationStartedAt, stuckCleared, zoneMode,
                 temperature, zonePc, zoneLocal, fs, episodeMode, forcedOnAt, guardDevice,
                 guardResult, sensorZone, history, readings, pollCycle, pr, goodRun,
                 sourceActive, sourceLastChanged, boilers, tc>>

\* the cycles of a behaviour are counted with its events
BufferRefresh ==
  /\ events < MaxHpOps
  /\ RefreshStep
  /\ events' = events + 1

\* the second half of the cycle: the buffer-tank sensor is read, the mode is
\* read again, and the primary, the secondary and the tertiary are evaluated
\* and toggled in turn; an evaluation that shuts the system down ends the cycle
BufferEvaluate ==
  /\ mainPower
  /\ bc.stage = "refreshed"
  /\ \E bufferTemp \in BufferReads :
       LET mode == systemMode
           f1 == EvaluateFatal("primary", bc.Primary, sourceActive, mode)
           f2 == EvaluateFatal("secondary", bc.Secondary, sourceActive, mode)
           f3 == EvaluateFatal("tertiary", bc.Tertiary, sourceActive, mode)
           c1 == EvaluateAndToggle("primary", bc.Primary, sourceActive, sourceLastChanged,
                                   bufferTemp, mode, now)
           c2 == EvaluateAndToggle("secondary", bc.Secondary, sourceActive, sourceLastChanged,
                                   bufferTemp, mode, now)
           c3 == EvaluateAndToggle("tertiary", bc.Tertiary, sourceActive, sourceLastChanged,
                                   bufferTemp, mode, now)
           refused == {h \in {bc.Primary, bc.Secondary, bc.Tertiary} \ {0} :
                         ~CanToggleIn(SourceLevels(sourceActive),
                                      SourceDevice(h, sourceLastChanged), now)}
       IN \E calls \in {IF f1 THEN <<>> ELSE IF f2 THEN c1 ELSE IF f3 THEN c1 \o c2
                         ELSE c1 \o c2 \o c3} :
          /\ sourceActive' = ApplySourceCalls(sourceActive, calls)
          /\ mainPower' = ~(f1 \/ f2 \/ f3)
          /\ bc' = [bc EXCEPT !.stage = "idle", !.ran = TRUE, !.bufferTemp = bufferTemp,
                              !.readFailed = bufferTemp = FailedRead, !.mode = mode,
                              !.calls = calls, !.fatal = f1 \/ f2 \/ f3,
                              !.activeBefore = sourceActive, !.at = now,
                              !.refused = refused]
  /\ ops' = <<>>
  /\ UNCHANGED <<zones, now, level, lastChanged, systemMode, overrideActive, priorSystemMode,
                 recirculationActive, recirculationStartedAt, stuckCleared, zoneMode,
                 temperature, zonePc, zoneLocal, heatPumps, events, fs, episodeMode, forcedOnAt,
                 guardDevice, guardResult, sensorZone, history, readings, pollCycle, pr, goodRun,
                 sourceLastChanged, boilers, tc>>

\* the API sets another system mode, at any point of the controller's cycle
ModeEvent ==
  /\ events < MaxHpOps
  /\ \E m \in Modes : SetSystemMode(m)
  /\ events' = events + 1

NextBuffer == BufferRefresh \/ BufferEvaluate \/ SetOnline \/ ModeEvent \/ Tick

SpecBuffer == InitBuffer /\ [][NextBuffer]_vars

(***************************************************************************)
(* The heat-source functions called on their own: GetThreshold,            *)
(* EvaluateAndToggle and GetHeatSources applied to every role name, mode,  *)
(* activation state and heat-pump table of a bounded set, the results      *)
(* recorded in tc.  A call that shuts the system down is the last one.     *)
(***************************************************************************)
\* a mode string that is none of the four modes
EmptyMode == ""

\* a role string that is none of the three roles
InvalidRole == "invalid"

\* the role names and modes the functions are called with
CallRoles == Roles \cup {InvalidRole}
CallModes == Modes \cup {EmptyMode}

\* the heat-pump tables GetHeatSources may find: any marking of the two rows
HeatPumpTables ==
  {[h \in HeatPumpIds |-> [isPrimary |-> h \in ps, online |-> TRUE, lastRotated |-> 0]] :
     ps \in SUBSET HeatPumpIds}

\* the arguments of the calls: a role name and a mode; the store holds any
\* marking of the heat pumps, and the heat sources are all off or all on,
\* stamped a full minimum on time ago or a minute ago
InitCalls ==
  /\ now = StartTime
  /\ zones = ZoneList
  /\ level = [n \in PinNumbers |-> ~RelayBoardActiveHigh]
  /\ lastChanged = [d \in DeviceNames |-> StartTime - (RadiantLoopMinOff + 1)]
  /\ systemMode = ModeOff
  /\ overrideActive = FALSE
  /\ priorSystemMode = NULL
  /\ recirculationActive = FALSE
  /\ recirculationStartedAt = NoTime
  /\ stuckCleared = FALSE
  /\ zoneMode = [z \in ZoneIds |-> ModeOff]
  /\ temperature = [z \in ZoneIds |-> 700]
  /\ zonePc = [z \in ZoneIds |-> "idle"]
  /\ zoneLocal = [z \in ZoneIds |-> NoLocal]
  /\ heatPumps \in HeatPumpTables
  /\ events = 0
  /\ ops = <<>>
  /\ fs = NoFs
  /\ episodeMode = NULL
  /\ forcedOnAt = [z \in DOMAIN AirHandlers |-> NoTime]
  /\ guardDevice = GuardDevice0
  /\ guardResult = NoGuardCall
  /\ FilterIdle
  /\ \E on \in BOOLEAN : sourceActive = [s \in HeatSourceIds |-> on]
  /\ \E age \in {1, HeatPumpMinOn} :
       sourceLastChanged = [s \in HeatSourceIds |-> StartTime - age]
  /\ boilers = SeededBoilers
  /\ \E role \in CallRoles, mode \in CallModes : tc = [NoTc EXCEPT !.role = role, !.mode = mode]
  /\ bc = NoBc

CallsUnchanged ==
  UNCHANGED <<zones, now, level, lastChanged, systemMode, overrideActive, priorSystemMode,
              recirculationActive, recirculationStartedAt, stuckCleared, zoneMode, temperature,
              zonePc, zoneLocal, heatPumps, fs, episodeMode, forcedOnAt, guardDevice,
              guardResult, sensorZone, history, readings, pollCycle, pr, goodRun,
              sourceLastChanged, boilers, bc>>

\* GetThreshold(role, mode, active) is called
CallGetThreshold ==
  /\ mainPower
  /\ tc.n < MaxCalls
  /\ \E active \in BOOLEAN :
       LET threshold == GetThreshold(tc.role, tc.mode, active)
       IN /\ tc' = [tc EXCEPT !.n = @ + 1, !.fn = "GetThreshold", !.active = active,
                              !.fatal = threshold.fatal,
                              !.returned[active] = ~threshold.fatal,
                              !.value[active] = threshold.value]
          /\ mainPower' = ~threshold.fatal
  /\ ops' = <<>>
  /\ UNCHANGED <<events, sourceActive>>
  /\ CallsUnchanged

\* EvaluateAndToggle is called for the source h in the role and mode of tc
CallEvaluateAndToggle ==
  /\ mainPower
  /\ tc.n < MaxCalls
  /\ \E h \in HeatSourceIds, bufferTemp \in BufferReads :
       LET fatal == EvaluateFatal(tc.role, h, sourceActive, tc.mode)
           calls == EvaluateAndToggle(tc.role, h, sourceActive, sourceLastChanged,
                                      bufferTemp, tc.mode, now)
       IN /\ tc' = [tc EXCEPT !.n = @ + 1, !.fn = "EvaluateAndToggle",
                              !.active = sourceActive[h], !.bufferTemp = bufferTemp,
                              !.source = h, !.fatal = fatal, !.calls = calls,
                              !.canToggle = CanToggleIn(SourceLevels(sourceActive),
                                                        SourceDevice(h, sourceLastChanged), now)]
          /\ sourceActive' = ApplySourceCalls(sourceActive, calls)
          /\ mainPower' = ~fatal
  /\ ops' = <<>>
  /\ UNCHANGED events
  /\ CallsUnchanged

\* GetHeatSources is called on the tables of the store
CallGetHeatSources ==
  /\ mainPower
  /\ tc.n < MaxCalls
  /\ LET sources == GetHeatSources(heatPumps, boilers)
     IN /\ tc' = [tc EXCEPT !.n = @ + 1, !.fn = "GetHeatSources", !.fatal = ~sources.ok,
                            !.sources = sources]
        /\ mainPower' = sources.ok
  /\ ops' = <<>>
  /\ UNCHANGED <<events, sourceActive>>
  /\ CallsUnchanged

NextCalls == CallGetThreshold \/ CallEvaluateAndToggle \/ CallGetHeatSources

SpecCalls == InitCalls /\ [][NextCalls]_vars

(***************************************************************************)
(* The zone specification: the zone controller's cycle from any system     *)
(* mode and zone mode, with the distributors of the zones running or not   *)
(* and switched just now or long enough ago for the guard to permit a      *)
(* toggle.                                                                 *)
(***************************************************************************)
\* what a zone sensor reads: below and above the band of every setpoint, and
\* at the setpoint of the garage (55.0) and of the other zones (70.0)
ZoneReads == {540, 550, 700, 720}

\* the distributors that are running: the pump runs with the blower only
RunningSets == {on \in SUBSET {"blower", "pump", "loop"} : "pump" \in on => "blower" \in on}

\* the pin levels when the distributors of on are running in every zone
RunningLevels(on) ==
  [n \in PinNumbers |->
     LET active == \/ "blower" \in on /\ \E z \in DOMAIN AirHandlers : AirHandlers[z].Pin.Number = n
                   \/ "pump" \in on
                        /\ \E z \in DOMAIN AirHandlers : AirHandlers[z].CircPumpPin.Number = n
                   \/ "loop" \in on /\ \E z \in DOMAIN RadiantLoops : RadiantLoops[z].Pin.Number = n
     IN IF active THEN RelayBoardActiveHigh ELSE ~RelayBoardActiveHigh]

InitZone ==
  /\ now = StartTime
  /\ zones = ZoneList
  /\ \E on \in RunningSets : level = RunningLevels(on)
  /\ \E handlerAge \in {0, AirHandlerMinOn}, loopAge \in {0, RadiantLoopMinOn} :
       lastChanged = [d \in DeviceNames |->
                        IF \E z \in DOMAIN AirHandlers : AirHandlers[z].Name = d
                        THEN StartTime - handlerAge ELSE StartTime - loopAge]
  /\ systemMode \in Modes
  /\ overrideActive = FALSE
  /\ priorSystemMode = NULL
  /\ recirculationActive = FALSE
  /\ recirculationStartedAt = NoTime
  /\ stuckCleared = FALSE
  /\ \E m \in Modes : zoneMode = [z \in ZoneIds |-> m]
  /\ \E v \in ZoneReads : temperature = [z \in ZoneIds |-> v]
  /\ zonePc = [z \in ZoneIds |-> "idle"]
  /\ zoneLocal = [z \in ZoneIds |-> NoLocal]
  /\ heatPumps = HeatPumps0
  /\ events = 0
  /\ ops = <<>>
  /\ fs = NoFs
  /\ episodeMode = NULL
  /\ forcedOnAt = [z \in DOMAIN AirHandlers |-> NoTime]
  /\ guardDevice = GuardDevice0
  /\ guardResult = NoGuardCall
  /\ FilterIdle
  /\ BufferIdle

NextZone ==
  \/ \E z \in ZoneIds : ZoneEvaluate(z)
  \/ \E z \in ZoneIds : ZoneActuate(z)
  \/ Tick

SpecZone == InitZone /\ [][NextZone]_vars

(***************************************************************************)
(* The recirculation specification: the zone and the recirculation         *)
(* controller on a store whose recirculation flag may have been left set   *)
(* (the process ended between the switching on of a blower and its         *)
(* switching off), with blowers running or not, in a house that is a       *)
(* little below its setpoints.  The recirculation                          *)
(* controller loops for as long as the process lives (lines 30-72), so its *)
(* cycle is taken whenever it stays due.                                   *)
(***************************************************************************)
\* minutes since the recirculation flag was set, around twice the duration
FlagAges == {RecirculationDuration * 2 - 2, RecirculationDuration * 2,
             RecirculationDuration * 2 + 1}

\* minutes since the air handlers were last switched: within the minimum
\* dwell, past the recirculation duration, past the recirculation interval
HandlerAges == {1, RecirculationDuration + 1, RecirculationInterval + 1}

\* the pin levels with the blowers of the zones in on running, pumps and loops off
BlowerLevels(on) ==
  [n \in PinNumbers |->
     IF \E z \in on : AirHandlers[z].Pin.Number = n
     THEN RelayBoardActiveHigh ELSE ~RelayBoardActiveHigh]

InitRecirc ==
  /\ now = StartTime
  /\ zones = ZoneList
  /\ \E on \in SUBSET DOMAIN AirHandlers : level = BlowerLevels(on)
  /\ \E age \in HandlerAges :
       lastChanged = [d \in DeviceNames |->
                        IF \E z \in DOMAIN AirHandlers : AirHandlers[z].Name = d
                        THEN StartTime - age ELSE StartTime - (RadiantLoopMinOff + 1)]
  /\ systemMode \in {ModeOff, ModeHeating}
  /\ overrideActive = FALSE
  /\ priorSystemMode = NULL
  /\ recirculationActive \in BOOLEAN
  /\ IF recirculationActive
     THEN \E age \in FlagAges : recirculationStartedAt = StartTime - age
     ELSE recirculationStartedAt = NoTime
  /\ stuckCleared = FALSE
  /\ \E m \in {ModeOff, ModeCirculate, ModeHeating} : zoneMode = [z \in ZoneIds |-> m]
  /\ temperature = [z \in ZoneIds |-> 680]
  /\ zonePc = [z \in ZoneIds |-> "idle"]
  /\ zoneLocal = [z \in ZoneIds |-> NoLocal]
  /\ heatPumps = HeatPumps0
  /\ events = 0
  /\ ops = <<>>
  /\ fs = NoFs
  /\ episodeMode = NULL
  /\ forcedOnAt = [z \in DOMAIN AirHandlers |-> NoTime]
  /\ guardDevice = GuardDevice0
  /\ guardResult = NoGuardCall
  /\ FilterIdle
  /\ BufferIdle

NextRecirc ==
  \/ \E z \in ZoneIds : ZoneEvaluate(z)
  \/ \E z \in ZoneIds : ZoneActuate(z)
  \/ RecirculationCycle
  \/ Tick

SpecRecirc == InitRecirc /\ [][NextRecirc]_vars /\ WF_vars(RecirculationCycle)

(***************************************************************************)
(* The override specification: the failsafe and the zone controller on a   *)
(* house that is outside the hard bounds or may get there, with devices    *)
(* that have been idle for long or were switched off in this very minute.  *)
(* Both controllers loop for as long as the process lives and the clock    *)
(* goes on, so their cycles and the minutes are taken whenever they stay   *)
(* due.                                                                    *)
(***************************************************************************)
\* minutes since the devices were last switched: none, or many
DeviceAges == {0, RecirculationInterval + 1}

\* the readings a sensor may report in the override specification
OverrideReadings == {549, 700, 901}

InitOverride ==
  /\ now = StartTime
  /\ zones = ZoneList
  /\ level = [n \in PinNumbers |-> ~RelayBoardActiveHigh]
  /\ \E age \in DeviceAges : lastChanged = [d \in DeviceNames |-> StartTime - age]
  /\ systemMode = ModeOff
  /\ overrideActive = FALSE
  /\ priorSystemMode = NULL
  /\ recirculationActive = FALSE
  /\ recirculationStartedAt = NoTime
  /\ stuckCleared = FALSE
  /\ zoneMode = [z \in ZoneIds |-> ModeOff]
  /\ \E t \in OverrideReadings, u \in OverrideReadings :
       temperature = [z \in ZoneIds |-> IF z = "main_floor" THEN t
                                        ELSE IF z = "basement" THEN u ELSE 700]
  /\ zonePc = [z \in ZoneIds |-> "idle"]
  /\ zoneLocal = [z \in ZoneIds |-> NoLocal]
  /\ heatPumps = HeatPumps0
  /\ events = 0
  /\ ops = <<>>
  /\ fs = NoFs
  /\ episodeMode = NULL
  /\ forcedOnAt = [z \in DOMAIN AirHandlers |-> NoTime]
  /\ guardDevice = GuardDevice0
  /\ guardResult = NoGuardCall
  /\ FilterIdle
  /\ BufferIdle

\* a new reading arrives
OverrideEvent ==
  /\ events < MaxEvents
  /\ \E z \in {"main_floor", "basement"} : \E v \in OverrideReadings : NewReading(z, v)
  /\ events' = events + 1

NextOverride ==
  \/ FailsafeCycle
  \/ \E z \in ZoneIds : ZoneEvaluate(z)
  \/ \E z \in ZoneIds : ZoneActuate(z)
  \/ OverrideEvent
  \/ Tick

SpecOverride ==
  /\ InitOverride /\ [][NextOverride]_vars
  /\ WF_vars(FailsafeCycle) /\ WF_vars(Tick)
  /\ \A z \in ZoneIds : WF_vars(ZoneEvaluate(z)) /\ WF_vars(ZoneActuate(z))

(***************************************************************************)
(* The heat-source controller running for ever: its cycles are not         *)
(* counted, so a cycle is always to come.  The behaviours start in heating *)
(* mode with every source released or every source energized, long enough  *)
(* ago for the guard to permit a change; a heat pump goes offline or the   *)
(* API sets another mode a bounded number of times.                        *)
(***************************************************************************)
InitSources ==
  /\ now = StartTime
  /\ zones = ZoneList
  /\ level = [n \in PinNumbers |-> ~RelayBoardActiveHigh]
  /\ lastChanged = [d \in DeviceNames |-> StartTime - (RadiantLoopMinOff + 1)]
  /\ systemMode = ModeHeating
  /\ overrideActive = FALSE
  /\ priorSystemMode = NULL
  /\ recirculationActive = FALSE
  /\ recirculationStartedAt = NoTime
  /\ stuckCleared = FALSE
  /\ zoneMode = [z \in ZoneIds |-> ModeOff]
  /\ temperature = [z \in ZoneIds |-> 700]
  /\ zonePc = [z \in ZoneIds |-> "idle"]
  /\ zoneLocal = [z \in ZoneIds |-> NoLocal]
  /\ heatPumps = [h \in HeatPumpIds |-> [isPrimary |-> h = 1, online |-> TRUE,
                                         lastRotated |-> StartTime]]
  /\ events = 0
  /\ ops = <<>>
  /\ fs = NoFs
  /\ episodeMode = NULL
  /\ forcedOnAt = [z \in DOMAIN AirHandlers |-> NoTime]
  /\ guardDevice = GuardDevice0
  /\ guardResult = NoGuardCall
  /\ FilterIdle
  /\ \E on \in BOOLEAN : sourceActive = [s \in HeatSourceIds |-> on]
  /\ sourceLastChanged = [s \in HeatSourceIds |-> StartTime - HeatPumpMinOn]
  /\ boilers = SeededBoilers
  /\ tc = NoTc
  /\ bc = NoBc

\* the first half of a cycle, as often as the loop comes round
SourcesRefresh ==
  /\ RefreshStep
  /\ events' = events

\* a heat pump's online flag or the system mode is changed from outside
SourcesEvent ==
  /\ events < MaxEvents
  /\ (SetOnline \/ ModeEvent)

NextSources == SourcesRefresh \/ BufferEvaluate \/ SourcesEvent \/ Tick

SpecSources ==
  /\ InitSources
  /\ [][NextSources]_vars
  /\ WF_vars(SourcesRefresh)
  /\ WF_vars(BufferEvaluate)
  /\ WF_vars(Tick)

(***************************************************************************)
(* Properties.                                                             *)
(***************************************************************************)

\* C1: every device call of a step is made after CanToggle returned true for
\* that device in the caller's cycle.
C1_GuardBeforeEveryCall ==
  \A i \in 1..Len(ops) : ops[i].guard

\* C2: a device call stamps lastChanged only when it changes a relay of the
\* device; a call that finds the device already in the commanded state leaves
\* the stamp alone.
C2_StampOnlyOnChange ==
  \A i \in 1..Len(ops) : ops[i].changed

\* C3: exactly one heat pump is primary after any sequence of role swaps,
\* committed or rolled back, and online changes.
C3_ExactlyOnePrimary ==
  Cardinality({h \in HeatPumpIds : heatPumps[h].isPrimary}) = 1

\* a swap that failed at its last statement, after an earlier swap had committed
C3_RolledBackAfterSwap ==
  /\ Len(ops) = 1
  /\ ops[1].call = "SwapPrimaryHeatPump"
  /\ ops[1].failAt = "set"
  /\ heatPumps[2].isPrimary

\* C4: CanToggle returns false exactly when the time since lastChanged is less
\* than minOn for a device whose pin is active, or less than minOff for a
\* device whose pin is inactive, and the call leaves the device, the pins and
\* the store as they were.
C4_CanToggleDefinition ==
  guardResult.called =>
    LET active == guardDevice.Pin.ActiveHigh = level[guardDevice.Pin.Number]
        elapsed == now - guardDevice.LastChanged
    IN /\ ~guardResult.result <=> IF active THEN elapsed < guardDevice.MinOn
                                   ELSE elapsed < guardDevice.MinOff
       /\ guardDevice = guardResult.device
       /\ level = guardResult.level
       /\ lastChanged = guardResult.stamps
       /\ storeVars = guardResult.store

\* the guard refuses an active device that has been on for minOff but not for minOn
C4_RefusedWhileActive ==
  /\ guardResult.called
  /\ ~guardResult.result
  /\ guardDevice.Pin.ActiveHigh = level[guardDevice.Pin.Number]
  /\ now - guardDevice.LastChanged >= guardDevice.MinOff
  /\ now - guardDevice.LastChanged < guardDevice.MinOn

\* C5: in a failsafe cycle that finds the override active, nothing is set and
\* no zone is activated; the override is cleared only when every non-exempt
\* zone has a reading within [minTemp + spread, maxTemp - spread]; and a cycle
\* that does not clear makes no device call and leaves the system row alone.
C5_ClearOnlyWhenAllSafe ==
  (fs.ran /\ fs.overrideBefore) =>
    /\ ~fs.SetOverride
    /\ fs.ActivateZones = <<>>
    /\ fs.ClearOverride =>
         \A z \in ZoneIds :
           ~(\E i \in 1..Len(ignoredZones) : ignoredZones[i] = z) =>
             /\ temperature[z] # NoReading
             /\ temperature[z] >= SystemOverrideMinTemp + Spread
             /\ temperature[z] <= SystemOverrideMaxTemp - Spread
    /\ ~fs.ClearOverride =>
         /\ fs.DeactivateZones = <<>>
         /\ ops = <<>>
         /\ overrideActive
         /\ systemMode = fs.modeBefore

\* C5, over the zones that have a valid reading: the same, where only the
\* non-exempt zones with a valid reading must be within the band.
C5_ClearOnlyWhenAllReadingsSafe ==
  (fs.ran /\ fs.overrideBefore) =>
    /\ ~fs.SetOverride
    /\ fs.ActivateZones = <<>>
    /\ fs.ClearOverride <=>
         \A z \in ZoneIds :
           (~(\E i \in 1..Len(ignoredZones) : ignoredZones[i] = z)
            /\ temperature[z] # NoReading) =>
             /\ temperature[z] >= SystemOverrideMinTemp + Spread
             /\ temperature[z] <= SystemOverrideMaxTemp - Spread
    /\ ~fs.ClearOverride =>
         /\ fs.DeactivateZones = <<>>
         /\ ops = <<>>
         /\ overrideActive
         /\ systemMode = fs.modeBefore

\* the override is cleared with the main floor exactly at minTemp + spread
C5_ClearedAtBandEdge ==
  /\ fs.ran /\ fs.overrideBefore /\ fs.ClearOverride /\ fs.dbOk
  /\ temperature["main_floor"] = SystemOverrideMinTemp + Spread
  /\ ~overrideActive

\* C6: a failsafe cycle that finds no override active requests one exactly
\* when some non-exempt zone reads strictly below minTemp or strictly above
\* maxTemp; the first such zone in zone-list order is the trigger, and the
\* mode is heating if that zone is below minTemp and cooling if it is above
\* maxTemp.
C6_OverrideIffStrictViolation ==
  (fs.ran /\ ~fs.overrideBefore) =>
    LET exempt(z) == \E i \in 1..Len(ignoredZones) : ignoredZones[i] = z
        below(z) == temperature[z] # NoReading /\ temperature[z] < SystemOverrideMinTemp
        above(z) == temperature[z] # NoReading /\ temperature[z] > SystemOverrideMaxTemp
        offender(z) == ~exempt(z) /\ (below(z) \/ above(z))
    IN /\ fs.SetOverride <=> \E z \in ZoneIds : offender(z)
       /\ ~fs.ClearOverride
       /\ fs.SetOverride =>
            \E i \in 1..Len(zones) :
              /\ offender(zones[i])
              /\ \A j \in 1..(i - 1) : ~offender(zones[j])
              /\ fs.TriggerZone = zones[i]
              /\ fs.OverrideMode = IF below(zones[i]) THEN ModeHeating ELSE ModeCooling
              /\ fs.ActivateZones = <<[Zone |-> zones[i], Mode |-> fs.OverrideMode]>>

\* two zones violate in opposite directions and the one listed first, the
\* basement above maxTemp, fixes the mode
C6_FirstOffenderWins ==
  /\ fs.ran /\ ~fs.overrideBefore /\ fs.SetOverride
  /\ temperature["main_floor"] < SystemOverrideMinTemp
  /\ temperature["main_floor"] # NoReading
  /\ temperature["basement"] > SystemOverrideMaxTemp
  /\ fs.TriggerZone = "basement"
  /\ fs.OverrideMode = ModeCooling

\* C7: an exempt zone never triggers an override (the trigger is a non-exempt
\* zone outside the bounds) and never blocks a clear (with the override
\* active and every non-exempt zone read within the safe band, the cycle
\* clears, whatever the exempt zones read and wherever they are listed).
C7_ExemptNeverTriggersNorBlocks ==
  fs.ran =>
    LET exempt(z) == z = "garage"
        outside(z) == /\ temperature[z] # NoReading
                      /\ \/ temperature[z] < SystemOverrideMinTemp
                         \/ temperature[z] > SystemOverrideMaxTemp
        safe(z) == /\ temperature[z] # NoReading
                   /\ temperature[z] >= SystemOverrideMinTemp + Spread
                   /\ temperature[z] <= SystemOverrideMaxTemp - Spread
    IN /\ fs.SetOverride => ~exempt(fs.TriggerZone) /\ outside(fs.TriggerZone)
       /\ (~fs.overrideBefore /\ \A z \in ZoneIds : ~exempt(z) => ~outside(z))
            => ~fs.SetOverride
       /\ (fs.overrideBefore /\ \A z \in ZoneIds : ~exempt(z) => safe(z))
            => fs.ClearOverride

\* the garage is listed first and reads above maxTemp, and the override is cleared
C7_ClearedDespiteGarage ==
  /\ fs.ran /\ fs.overrideBefore /\ fs.ClearOverride
  /\ zones[1] = "garage"
  /\ temperature["garage"] > SystemOverrideMaxTemp

\* C8: a committed SetSystemOverride stores the mode it found as prior, sets
\* the flag and switches to the required mode; a committed ClearSystemOverride
\* restores the mode that was in effect just before the matching set, resets
\* the flag and erases the prior mode; a transaction that fails changes nothing.
C8_OverrideRoundTrip ==
  fs.ran =>
    /\ (fs.SetOverride /\ fs.dbOk) =>
         /\ priorSystemMode = fs.modeBefore
         /\ overrideActive
         /\ systemMode = fs.OverrideMode
    /\ (fs.ClearOverride /\ fs.dbOk) =>
         /\ systemMode = episodeMode
         /\ ~overrideActive
         /\ priorSystemMode = NULL
    /\ ((fs.SetOverride \/ fs.ClearOverride) /\ ~fs.dbOk) =>
         /\ systemMode = fs.modeBefore
         /\ overrideActive = fs.overrideBefore
         /\ ops = <<>>

\* an override set in cooling mode is cleared and cooling is back
C8_CoolingRestored ==
  /\ fs.ran /\ fs.ClearOverride /\ fs.dbOk
  /\ episodeMode = ModeCooling
  /\ fs.modeBefore = ModeHeating
  /\ systemMode = ModeCooling

\* C9: no step made while the override flag is set contains a device call
\* of the zone controller.
C9_ZoneStandsDown ==
  overrideActive => \A i \in 1..Len(ops) : ops[i].ctl # "zone"

\* C10: a call that switches off a blower forced on for recirculation is made
\* at least RecirculationDuration after the forcing, with the circulation
\* pump inactive and the system mode not circulate.
C10_ForcedBlowerOffOnlyAfterDuration ==
  \A i \in 1..Len(ops) :
    (ops[i].blowerOff /\ ops[i].forcedAt # NoTime) =>
      /\ ops[i].at - ops[i].forcedAt >= RecirculationDuration
      /\ ~ops[i].pumpBefore
      /\ systemMode # ModeCirculate

\* C11: no step made while the recirculation flag is set contains a call of
\* the zone controller that switches a blower pin from active to inactive.
C11_ZoneLeavesBlowerUnderRecirculation ==
  recirculationActive =>
    \A i \in 1..Len(ops) : ops[i].ctl = "zone" => ~ops[i].blowerOff

\* C12: a reading that finds the sensor disabled and leaves it disabled is
\* rejected, and the published value is the frozen last-good value.
C12_DisabledRejectsEveryReading ==
  (pr.ran /\ pr.before.Disabled /\ history.Disabled) =>
    /\ ~pr.accepted
    /\ readings.Exists =>
         readings.Reading.Temperature = pr.before.LastGoodReading.Temperature

\* C13: after a rejected reading of a sensor that has a last good value,
\* GetTemperature returns that value as a valid reading.
C13_RejectedKeepsLastGood ==
  (pr.ran /\ ~pr.accepted /\ pr.before.LastGoodReading.Valid) =>
    GetTemperature(readings, pollCycle) =
      [temp |-> pr.before.LastGoodReading.Temperature, valid |-> TRUE]

\* C14, as stated: a sensor that is not disabled becomes disabled in the step
\* in which its anomaly counter reaches maxAnomalies; a step that raises the
\* counter rejects its reading; the step that disables sends exactly one
\* disable notification, and no step on a disabled sensor sends one.
C14_DisableAtThresholdAllRejected ==
  pr.ran =>
    /\ ~pr.before.Disabled => (history.Disabled <=> history.AnomalyCount >= maxAnomalies)
    /\ history.AnomalyCount > pr.before.AnomalyCount => ~pr.accepted
    /\ (~pr.before.Disabled /\ history.Disabled) =>
         (Len(pr.sent) = 1 /\ pr.sent[1].kind = "disable")
    /\ pr.before.Disabled => \A i \in 1..Len(pr.sent) : pr.sent[i].kind # "disable"

\* C14, amended: the same, where a step that raises the counter rejects its
\* reading unless it is the bootstrap analysis of the sixth buffered reading,
\* which counts the outliers among readings that were accepted.
C14_DisableAtThreshold ==
  pr.ran =>
    /\ ~pr.before.Disabled => (history.Disabled <=> history.AnomalyCount >= maxAnomalies)
    /\ (/\ history.AnomalyCount > pr.before.AnomalyCount
        /\ ~(pr.temp > 0 /\ Len(pr.before.Readings) = maxAnomalies - 1)) => ~pr.accepted
    /\ (~pr.before.Disabled /\ history.Disabled) =>
         (Len(pr.sent) = 1 /\ pr.sent[1].kind = "disable")
    /\ pr.before.Disabled => \A i \in 1..Len(pr.sent) : pr.sent[i].kind # "disable"

\* a bootstrapped sensor is disabled by the reading that takes the counter to six
C14_DisabledAfterBootstrap ==
  /\ pr.ran /\ ~pr.before.Disabled /\ history.Disabled
  /\ Len(history.Readings) >= maxAnomalies
  /\ pr.before.AnomalyCount = maxAnomalies - 1
  /\ Len(pr.sent) = 1

\* C15: the main power relay is released exactly when the buffer-tank sensor
\* is disabled, in the step that disables it; a disabled sensor of any other
\* zone leaves the relay energized.
C15_ShutdownIffBufferTankDisabled ==
  /\ mainPower <=> ~(sensorZone = "buffer_tank" /\ history.Disabled)
  /\ pr.ran => (pr.shutdown <=> ~mainPower)

\* the buffer-tank sensor is disabled and the relay is released in that step
C15_BufferTankShutsDown ==
  /\ pr.ran /\ pr.shutdown /\ ~mainPower
  /\ sensorZone = "buffer_tank"
  /\ ~pr.before.Disabled /\ history.Disabled

\* the step just taken was a steady-state reading within the zone's threshold:
\* bootstrap finished, sensor enabled, a positive reading no further from the
\* last-good value than the delta threshold of the zone
C16_SteadyGoodReading ==
  /\ pr.ran /\ pr.temp > 0
  /\ Len(pr.before.Readings) >= maxAnomalies
  /\ ~pr.before.Disabled
  /\ Abs(pr.temp - pr.before.LastGoodReading.Temperature)
       <= (IF sensorZone = "garage" THEN garageTempDelta ELSE maxTempDelta)

\* C16 (as stated): a steady-state reading within the threshold is accepted,
\* becomes the last-good value and leaves the anomaly counter at zero.
C16_GoodReadingZeroesCounter ==
  C16_SteadyGoodReading =>
    /\ pr.accepted
    /\ history.LastGoodReading.Temperature = pr.temp
    /\ readings.Exists /\ readings.Reading.Temperature = pr.temp
    /\ history.AnomalyCount = 0

\* C16 (amended): a steady-state reading within the threshold is accepted and
\* becomes the last-good value; it zeroes the anomaly counter once the history
\* holds more than maxAnomalies readings, and leaves the counter as the
\* bootstrap phase set it when it is the first reading after bootstrap.
C16_GoodReadingAccepted ==
  C16_SteadyGoodReading =>
    /\ pr.accepted
    /\ history.LastGoodReading.Temperature = pr.temp
    /\ readings.Exists /\ readings.Reading.Temperature = pr.temp
    /\ history.AnomalyCount =
         IF Len(pr.before.Readings) > maxAnomalies THEN 0 ELSE pr.before.AnomalyCount

\* a good reading after a rejected one brings the counter back to zero
C16_CounterResetByGoodReading ==
  /\ C16_SteadyGoodReading
  /\ pr.before.AnomalyCount > 0
  /\ Len(pr.before.Readings) > maxAnomalies
  /\ pr.accepted /\ history.AnomalyCount = 0

\* C17: a disabled sensor is re-enabled exactly in the step that completes
\* maxAnomalies consecutive readings within the delta threshold, counted since
\* it was disabled or since the last out-of-range reading; in that step both
\* counters are zero, the reading is the new last-good baseline and exactly
\* one recovery notification is sent.
C17_ReenabledExactlyAfterGoodRun ==
  (pr.ran /\ pr.before.Disabled) =>
    /\ ~history.Disabled <=> goodRun >= maxAnomalies
    /\ ~history.Disabled =>
         /\ history.AnomalyCount = 0 /\ history.RecoveryCount = 0
         /\ history.LastGoodReading.Temperature = pr.temp
         /\ Len(pr.sent) = 1 /\ pr.sent[1].kind = "recovery"
    /\ history.Disabled => \A i \in 1..Len(pr.sent) : pr.sent[i].kind # "recovery"

C19_FailedReadNeverToggles ==
  (bc.ran /\ bc.readFailed) => bc.calls = <<>>

\* C20 (as stated): the roles are swapped in a cycle iff both heat pumps are
\* online and the time since the last rotation is at least the rotation
\* interval; in every other cycle the controller acts on the roles of the
\* previous cycle.
C20_RotatesAtInterval ==
  bc.ran =>
    /\ (bc.Primary = GetHeatSources(bc.before, boilers).Secondary
          /\ bc.Secondary = GetHeatSources(bc.before, boilers).Primary)
         <=> (bc.bothOnline /\ bc.elapsed >= RoleRotationMinutes)
    /\ (~(bc.bothOnline /\ bc.elapsed >= RoleRotationMinutes) /\ bc.prevRan) =>
         bc.Primary = bc.prevPrimary /\ bc.Secondary = bc.prevSecondary

\* C20 (amended): the roles are swapped in a cycle iff both heat pumps are
\* online and the time since the last rotation exceeds the rotation interval;
\* in every other cycle the stored roles are left as they are, and the
\* controller acts on them as stored when both heat pumps are online.
C20_RotatesAfterInterval ==
  bc.ran =>
    /\ (bc.Primary = GetHeatSources(bc.before, boilers).Secondary
          /\ bc.Secondary = GetHeatSources(bc.before, boilers).Primary)
         <=> (bc.bothOnline /\ bc.elapsed > RoleRotationMinutes)
    /\ ~(bc.bothOnline /\ bc.elapsed > RoleRotationMinutes) =>
         /\ bc.after = bc.before
         /\ bc.bothOnline =>
              /\ bc.Primary = GetHeatSources(bc.before, boilers).Primary
              /\ bc.Secondary = GetHeatSources(bc.before, boilers).Secondary

\* a cycle that found the rotation overdue swapped the roles, in the store too
C20_RotatedWhenOverdue ==
  /\ bc.ran /\ bc.bothOnline /\ bc.elapsed > RoleRotationMinutes
  /\ bc.Primary = GetHeatSources(bc.before, boilers).Secondary
  /\ GetHeatSources(bc.after, boilers).Primary = bc.Primary
  /\ bc.after[bc.Primary].lastRotated = now

\* C21: RefreshSources offers exactly the online heat pumps as heat-pump
\* sources: with one pump online that pump is the primary, there is no
\* secondary and nothing is rotated; with none online there is no heat-pump
\* source; and the call returns normally whatever the mode and the boilers.
C21_OnlinePumpsOffered ==
  LET online == {h \in HeatPumpIds : bc.before[h].online}
  IN /\ ~bc.panicked
     /\ (bc.ran /\ Cardinality(online) = 1) =>
          /\ bc.Primary \in online /\ bc.Secondary = 0
          /\ ~bc.rotated /\ bc.after = bc.before
     /\ (bc.ran /\ online = {}) => bc.Primary = 0 /\ bc.Secondary = 0

\* C22: a cycle that runs in cooling mode is not offered the tertiary source,
\* even when the boiler is online, and makes no call on the boiler; the same
\* holds for the boiler calls of a cycle that finds the mode cooling at either
\* of its two reads.
C22_NoTertiaryInCooling ==
  /\ (bc.stage = "refreshed" \/ bc.ran) /\ bc.refreshMode = ModeCooling => bc.Tertiary = 0
  /\ (bc.ran /\ (bc.refreshMode = ModeCooling \/ bc.mode = ModeCooling)) =>
       \A i \in 1..Len(bc.calls) : bc.calls[i].id # BoilerId

\* a cycle ran in cooling with the boiler online and the buffer tank warm
\* enough to start a heat pump, which it did
C22_CoolingCycleBoilerOnline ==
  /\ bc.ran /\ bc.refreshMode = ModeCooling /\ bc.mode = ModeCooling
  /\ Len(boilers) > 0 /\ boilers[1].online
  /\ bc.Tertiary = 0
  /\ \E i \in 1..Len(bc.calls) : bc.calls[i].call = "activate"

\* C23: in a cycle evaluated in heating or cooling mode a heat source changes
\* state only if it was offered, the buffer temperature is strictly on the
\* demand side of its threshold (below in heating, above in cooling) while it
\* is off, or not while it is on, and CanToggle is true for it; an offered
\* source for which CanToggle is false keeps its state in that cycle, and a
\* source that is due and permitted is toggled whatever happened before.
C23_ToggleOnlyWhenDueAndPermitted ==
  (bc.ran /\ bc.mode \in {ModeHeating, ModeCooling}) =>
    \A h \in HeatSourceIds :
      LET role == IF h = bc.Primary THEN "primary"
                  ELSE IF h = bc.Secondary THEN "secondary" ELSE "tertiary"
          offered == h \in {bc.Primary, bc.Secondary, bc.Tertiary}
          active == bc.activeBefore[h]
          threshold == GetThreshold(role, bc.mode, active).value
          should == IF bc.mode = ModeHeating THEN bc.bufferTemp < threshold
                    ELSE bc.bufferTemp > threshold
          can == CanToggleIn(SourceLevels(bc.activeBefore),
                             SourceDevice(h, sourceLastChanged), bc.at)
          toggled == sourceActive[h] # active
      IN /\ toggled => (offered /\ should # active /\ can)
         /\ (offered /\ ~can) => ~toggled
         /\ (~bc.fatal /\ offered /\ should # active /\ can) => toggled

\* a heat pump that the previous cycle left running because its minimum on
\* time had not passed is switched off by this cycle
C23_RefusedThenToggled ==
  /\ bc.ran /\ bc.mode = ModeHeating
  /\ \E h \in bc.prevRefused :
        /\ bc.activeBefore[h] /\ ~sourceActive[h]
        /\ \E i \in 1..Len(bc.calls) : bc.calls[i].id = h /\ bc.calls[i].call = "deactivate"

\* C24: for primary, secondary and tertiary in heating and for primary and
\* secondary in cooling, GetThreshold returns a threshold for an active and
\* for an inactive source, and the two differ by exactly the spread: the
\* threshold of the active source (off) lies above the one of the inactive
\* source (on) in heating and below it in cooling.
C24_HysteresisBySpread ==
  LET valid == \/ tc.mode = ModeHeating /\ tc.role \in Roles
               \/ tc.mode = ModeCooling /\ tc.role \in {"primary", "secondary"}
      off == tc.value[TRUE]
      on == tc.value[FALSE]
  IN (tc.fn = "GetThreshold" /\ valid) =>
       /\ ~tc.fatal
       /\ (tc.returned[TRUE] /\ tc.returned[FALSE]) =>
            IF tc.mode = ModeHeating THEN off - on = Spread /\ off > on
            ELSE on - off = Spread /\ off < on

\* the secondary in cooling: on above 50.0 F, off below 45.0 F
C24_SecondaryCoolingBand ==
  /\ tc.fn = "GetThreshold" /\ tc.role = "secondary" /\ tc.mode = ModeCooling
  /\ tc.returned[TRUE] /\ tc.returned[FALSE]
  /\ tc.value[FALSE] = CoolingThreshold + SecondaryMargin
  /\ tc.value[TRUE] = CoolingThreshold + SecondaryMargin - Spread

\* C25: a lookup that finds no heat pump or several heat pumps marked
\* primary, and a threshold or an evaluation asked for the tertiary in cooling
\* mode or for a role that is none of the three, shut the system down: the
\* main power relay is released, no heat source is toggled by the call, and
\* nothing more is done once the relay is released.
C25_InconsistentStateShutsDown ==
  /\ [](/\ (tc.fn = "GetHeatSources"
               /\ Cardinality({h \in HeatPumpIds : heatPumps[h].isPrimary}) # 1) =>
               ~mainPower
        /\ (tc.fn \in {"GetThreshold", "EvaluateAndToggle"}
               /\ (tc.role \notin {"primary", "secondary", "tertiary"}
                      \/ (tc.role = "tertiary" /\ tc.mode = ModeCooling))) =>
               ~mainPower /\ tc.calls = <<>>)
  /\ [][~mainPower => (tc' = tc /\ sourceActive' = sourceActive /\ heatPumps' = heatPumps)]_vars

\* the lookup found both heat pumps marked primary and released the relay
C25_SeveralPrimariesShutDown ==
  /\ tc.fn = "GetHeatSources"
  /\ \A h \in HeatPumpIds : heatPumps[h].isPrimary
  /\ ~mainPower

\* C26: GetThreshold called with a mode that is none of the four system
\* modes shuts the system down and returns no threshold.
C26_UnknownModeShutsDown ==
  (tc.fn = "GetThreshold" /\ tc.mode \notin Modes) =>
    (tc.fatal /\ ~mainPower /\ ~tc.returned[tc.active])

C28_RequestsGatedPerDevice ==
  \A z \in ZoneIds :
    zonePc[z] = "act" =>
      /\ (zoneLocal[z].sw \cap {"activate_loop", "deactivate_loop"} # {}) =>
           zoneLocal[z].canToggleLoop
      /\ (zoneLocal[z].sw \cap {"activate_blower", "deactivate_blower",
                                 "activate_pump", "deactivate_pump"} # {}) =>
           zoneLocal[z].canToggleHandler

\* C29: while a zone's mode is cooling the zone controller's cycle never
\* asks for the radiant loop to be activated, and when the loop is energized
\* and the guard permits the loop to toggle the cycle switches it off.
C29_LoopUnusedInCooling ==
  \A z \in DOMAIN RadiantLoops :
    LET l == ZoneCycleLocals(z)
    IN (zoneMode[z] = ModeCooling /\ zonePc[z] = "idle" /\ ~overrideActive) =>
         /\ "activate_loop" \notin l.sw
         /\ (CurrentlyActive(RadiantLoops[z].Pin) /\ l.canToggleLoop) =>
              (l.err \/ "deactivate_loop" \in l.sw)

\* C30: a cycle of the zone controller that acts on a zone in circulate mode
\* with the guard permitting the air handler to toggle leaves the blower on
\* and the circulation pump off: a running blower keeps running while a
\* pump left on is switched off.
C30_CirculateBlowerOnPumpOff ==
  [][\A z \in DOMAIN AirHandlers :
       (/\ zonePc[z] = "act" /\ zonePc'[z] = "idle"
        /\ zoneMode[z] = ModeCirculate
        /\ ~zoneLocal[z].err /\ zoneLocal[z].canToggleHandler) =>
         /\ CurrentlyActiveIn(level', AirHandlers[z].Pin)
         /\ ~CurrentlyActiveIn(level', AirHandlers[z].CircPumpPin)]_vars

\* C31: in the cycle in which the failsafe clears an override, every zone of
\* the zones table, the exempt ones included, is handed to
\* deactivateZoneDistribution (which asks the timing guard for each device).
C31_EveryZoneCommandedOff ==
  (fs.ran /\ fs.ClearOverride /\ fs.dbOk) =>
    \A z \in ZoneIds : \E i \in DOMAIN fs.DeactivateZones : fs.DeactivateZones[i] = z

\* C32: once the anomaly count of an enabled sensor past its bootstrap has
\* reached 4, a reading that is anomalous (beyond the delta threshold of the
\* last good value, or not a valid temperature) is never accepted: it is
\* rejected and the anomaly count goes up by one.
C32_NoSmartRecoveryAtCap ==
  (/\ pr.ran
   /\ ~pr.before.Disabled
   /\ Len(pr.before.Readings) >= maxAnomalies
   /\ pr.before.AnomalyCount >= 4
   /\ (pr.temp <= 0 \/ isAnomalousReading(pr.before, pr.temp)))
  => (~pr.accepted /\ history.AnomalyCount = pr.before.AnomalyCount + 1)

\* C33: a reading that reaches a disabled sensor past its bootstrap and is out
\* of range (beyond the delta threshold of the last good value, or not a valid
\* temperature) leaves the recovery count at zero, leaves the sensor disabled
\* and sends no notification.
C33_OutOfRangeResetsRecovery ==
  (/\ pr.ran
   /\ pr.before.Disabled
   /\ Len(pr.before.Readings) >= maxAnomalies
   /\ (pr.temp <= 0 \/ ~isGoodReading(pr.before, pr.temp)))
  => (history.RecoveryCount = 0 /\ history.Disabled /\ pr.sent = <<>>)

C35_GuardedChangesKeepDwell ==
  [][LET all == ops \o ops'
         pins(o) == o.pinsOn \cup o.pinsOff
     IN \A i \in 1..Len(all) : \A j \in (i + 1)..Len(all) :
          (j > Len(ops) /\ all[j].guard) =>
            /\ \A n \in pins(all[i]) \cap all[j].pinsOff : all[j].at - all[i].at >= all[j].minOn
            /\ \A n \in pins(all[i]) \cap all[j].pinsOn : all[j].at - all[i].at >= all[j].minOff]_vars

\* C36: the step that sets the override leaves the system mode at the mode
\* the override requires, and no step taken while the override stays active
\* changes the system mode.
C36_OverrideModeKept ==
  [][/\ (~overrideActive /\ overrideActive') => systemMode' = fs'.OverrideMode
     /\ (overrideActive /\ overrideActive') => systemMode' = systemMode]_vars

\* C37: once a cycle of the failsafe has set an override for a zone, the
\* distributors of that zone get energized for the override's mode (blower
\* and pump of its air handler, and its radiant loop for heating) or the
\* override ends.
C37_TriggerZoneEventuallyEnergized ==
  \A z \in ZoneIds :
    (fs.ran /\ fs.SetOverride /\ fs.dbOk /\ fs.TriggerZone = z)
      ~> \/ ~overrideActive
         \/ /\ HasAirHandler(z) => /\ CurrentlyActive(AirHandlers[z].Pin)
                                   /\ CurrentlyActive(AirHandlers[z].CircPumpPin)
            /\ (HasRadiantLoop(z) /\ systemMode = ModeHeating)
                 => CurrentlyActive(RadiantLoops[z].Pin)

\* C38: a heat source that is energized when it stops being offered (a heat
\* pump that is offline, the boiler in cooling mode), with the guard
\* permitting a change, is eventually de-energized by the heat source
\* controller, unless it is offered again or the system is shut down.
C38_UnofferedSourceSwitchedOff ==
  /\ \A h \in HeatPumpIds :
       (/\ sourceActive[h]
        /\ ~heatPumps[h].online
        /\ mainPower
        /\ CanToggleIn(SourceLevels(sourceActive), SourceDevice(h, sourceLastChanged), now))
         ~> (~sourceActive[h] \/ heatPumps[h].online \/ ~mainPower)
  /\ (/\ sourceActive[BoilerId]
      /\ systemMode = ModeCooling
      /\ mainPower
      /\ CanToggleIn(SourceLevels(sourceActive), SourceDevice(BoilerId, sourceLastChanged),
                     now))
       ~> (~sourceActive[BoilerId] \/ systemMode # ModeCooling \/ ~mainPower)

\* C39: for a zone in heating mode whose cycle found no mode conflict, the
\* zone controller switches a running radiant loop off only when the zone's
\* temperature has reached setpoint + ZoneSpread, and switches an idle one
\* on only when the temperature is below setpoint - ZoneSpread, with or
\* without an air handler in the zone.
C39_LoopFollowsBand ==
  [][\A z \in DOMAIN RadiantLoops :
       (/\ zonePc[z] = "act"
        /\ zonePc'[z] = "idle"
        /\ zoneMode[z] = ModeHeating
        /\ ~zoneLocal[z].err)
         => /\ (/\ level[RadiantLoops[z].Pin.Number] = RelayBoardActiveHigh
                /\ level'[RadiantLoops[z].Pin.Number] # RelayBoardActiveHigh)
                 => temperature[z] >= ZoneSetpoint[z] + ZoneSpread
            /\ (/\ level[RadiantLoops[z].Pin.Number] # RelayBoardActiveHigh
                /\ level'[RadiantLoops[z].Pin.Number] = RelayBoardActiveHigh)
                 => temperature[z] < ZoneSetpoint[z] - ZoneSpread]_vars

\* C40: the recirculation controller never switches off a blower that runs
\* because its zone's mode is circulate: a blower that recirculation did not
\* switch on, in a zone in circulate mode, with the system mode not circulate
\* and the recirculation flag not set.
C40_CirculateBlowerLeftOn ==
  [][\A z \in DOMAIN AirHandlers : \A i \in 1..Len(ops') :
       (/\ ops'[i].ctl = "recirculation"
        /\ ops'[i].dev = AirHandlers[z].Name
        /\ ops'[i].blowerOff)
         => ~(/\ zoneMode[z] = ModeCirculate
              /\ systemMode # ModeCirculate
              /\ ~recirculationActive
              /\ forcedOnAt[z] = NoTime)]_vars

====
